---------------------------- MODULE Spec2Model ----------------------------
(***************************************************************************)
(* ATS compatibility scoring engine of Job-Genie                           *)
(* (src/scripts/ats/optimization_engine.py, class ATSOptimizationEngine).  *)
(*                                                                         *)
(* The engine is a set of pure functions of a resume text, a job           *)
(* description and an ATS system type.  A state of the model is one call:  *)
(* the arguments, which method was called, and what it returned or raised. *)
(*                                                                         *)
(* Texts are sequences of characters (one-character strings).  A long      *)
(* resume is a body followed by `pad` copies of the filler word " zz", so  *)
(* that word counts in the hundreds do not need sequences of thousands of  *)
(* characters.                                                             *)
(*                                                                         *)
(* Numbers.  The format score is built by repeated subtraction of the      *)
(* inexact literals 0.1, 0.05 and 0.2, so it is kept as the exact binary64 *)
(* value (three limbs).  The other scores are quotients of small integers; *)
(* they are kept as exact fractions.                                       *)
(*                                                                         *)
(* The later sections model the resume parser                              *)
(* (src/scripts/parsers/enhanced_parser.py, class EnhancedResumeParser),   *)
(* with the regular expressions it uses evaluated by a backtracking        *)
(* matcher, and calculate_weighted_similarity of                           *)
(* src/scripts/utils/quick_improvements.py, the input and file validation  *)
(* of src/scripts/utils/security.py, ResumeProcessor.process               *)
(* (src/scripts/ResumeProcessor.py) and                                    *)
(* IntegratedResumeProcessor.analyze_compatibility                         *)
(* (src/scripts/integration_bridge.py).  Each method has its own           *)
(* specification, whose states are the calls of that method.               *)
(***************************************************************************)
EXTENDS Integers, Sequences, FiniteSets, TLC

VARIABLES resume_text, job_description, method, ats_type, outcome, ret,
          engine, calls

vars == <<resume_text, job_description, method, ats_type, outcome, ret,
          engine, calls>>

-----------------------------------------------------------------------------
(* Characters and strings                                                  *)

\* str.isspace() on the characters that occur in the modelled texts
IsSpace(c) == c \in {" ", "\t", "\n"}

UpperCase == <<"A","B","C","D","E","F","G","H","I","J","K","L","M",
               "N","O","P","Q","R","S","T","U","V","W","X","Y","Z">>
LowerCase == <<"a","b","c","d","e","f","g","h","i","j","k","l","m",
               "n","o","p","q","r","s","t","u","v","w","x","y","z">>
Digits == <<"0","1","2","3","4","5","6","7","8","9">>

Range(f) == {f[i] : i \in DOMAIN f}

\* F(v), with v evaluated first: one statement after another.  (TLC
\* evaluates the arguments of an operator when they are first used; a chain
\* of pending arguments is evaluated on a deep stack.)
Then(v, F(_)) == CHOOSE r \in {F(x) : x \in {v}} : TRUE

ToLower == [c \in Range(UpperCase) |->
              LowerCase[CHOOSE i \in 1..26 : UpperCase[i] = c]]

\* str.lower(), character by character
LowerChar(c) == IF c \in DOMAIN ToLower THEN ToLower[c] ELSE c
Lower(s) == [i \in 1..Len(s) |-> LowerChar(s[i])]

IsDigit(c) == c \in Range(Digits)
IsAlpha(c) == c \in Range(LowerCase) \cup Range(UpperCase)
\* a regex word character (\w), as used by \b
IsWordChar(c) == IsAlpha(c) \/ IsDigit(c) \/ c = "_"

DigitValue(c) == (CHOOSE i \in 1..10 : Digits[i] = c) - 1

\* p occurs in s starting at position i
MatchAt(p, s, i) ==
    /\ i >= 1
    /\ i + Len(p) - 1 <= Len(s)
    /\ \A j \in 1..Len(p) : s[i + j - 1] = p[j]

\* the Python test `p in s`
Contains(s, p) == \E i \in 1..(Len(s) - Len(p) + 1) : MatchAt(p, s, i)

\* the least element of a non-empty set of integers
SetMin(S) == CHOOSE x \in S : \A y \in S : x <= y

\* first position >= i of s that is not whitespace (Len(s)+1 if none): \s*
SkipSpace(s, i) ==
    SetMin({j \in i..Len(s) : ~IsSpace(s[j])} \cup {IF i > Len(s) THEN i ELSE Len(s) + 1})

-----------------------------------------------------------------------------
(* Python floats (IEEE-754 binary64) in [2^-5, 1], and 0.0                 *)
(*                                                                         *)
(* A value x is the triple <<a, b, c>> of limbs in base 2^19 with          *)
(*     x = (a * 2^38 + b * 2^19 + c) * 2^-57 .                             *)
(* 2^-57 is the unit in the last place of the smallest literal used        *)
(* (0.05), so every literal and every difference computed by the code is   *)
(* a whole number of units before rounding.                                *)

Limb == 2^19

\* unit in the last place, in units of 2^-57, of the binade the value is in
Ulp(a) ==
    IF a >= Limb THEN 32
    ELSE IF a >= Limb \div 2 THEN 16
    ELSE IF a >= Limb \div 4 THEN 8
    ELSE IF a >= Limb \div 8 THEN 4
    ELSE IF a >= Limb \div 16 THEN 2
    ELSE 1

\* carries of an un-normalised limb triple
Carry(a, b, c) ==
    LET b1 == b + (c \div Limb)
    IN  <<a + (b1 \div Limb), b1 % Limb, c % Limb>>

\* Round to nearest, ties to even, the exact value <<a,b,c>> + r/q units
\* (0 <= r < q) to the precision of its binade.
RoundNearestEven(a, b, c, r, q) ==
    LET u    == Ulp(a)
        low  == c % u
        down == c - low
        \* compare the discarded part low + r/q with u/2
        twice == 2 * (low * q + r)
        up   == \/ twice > u * q
                \/ twice = u * q /\ (c \div u) % 2 = 1
    IN  IF up THEN Carry(a, b, down + u) ELSE <<a, b, down>>

\* The float denoted by the decimal literal p/q (0 <= p <= q <= 100),
\* correctly rounded as Python's parser does.
FloatLiteral(p, q) ==
    LET a  == (p * Limb) \div q
        r1 == (p * Limb) % q
        b  == (r1 * Limb) \div q
        r2 == (r1 * Limb) % q
        c  == (r2 * Limb) \div q
        r3 == (r2 * Limb) % q
    IN  RoundNearestEven(a, b, c, r3, q)

\* x - y for floats x >= y: the exact difference, rounded
FloatSub(x, y) ==
    LET c0 == x[3] - y[3]
        bc == IF c0 < 0 THEN 1 ELSE 0
        b0 == x[2] - y[2] - bc
        bb == IF b0 < 0 THEN 1 ELSE 0
        a0 == x[1] - y[1] - bb
    IN  RoundNearestEven(a0, b0 + bb * Limb, c0 + bc * Limb, 0, 1)

\* x < y
FloatLess(x, y) ==
    \/ x[1] < y[1]
    \/ x[1] = y[1] /\ x[2] < y[2]
    \/ x[1] = y[1] /\ x[2] = y[2] /\ x[3] < y[3]

\* max(x, y) of Python: y only if y > x
FloatMax(x, y) == IF FloatLess(x, y) THEN y ELSE x

\* The value of a float in hundredths, rounded to the nearest hundredth
\* (what the float prints as with two decimals).
Hundredths(x) ==
    LET t0 == 100 * x[3]
        t1 == 100 * x[2] + (t0 \div Limb)
        t2 == 100 * x[1] + (t1 \div Limb)
    IN  (t2 + Limb \div 2) \div Limb

\* 100 * x - Hundredths(x) * 2^57 : the distance of x from that hundredth,
\* in units of 2^-57 / 100, when it is below 2^19 in magnitude.
HundredthsError(x) ==
    LET t0 == 100 * x[3]
        t1 == 100 * x[2] + (t0 \div Limb)
        t2 == 100 * x[1] + (t1 \div Limb) - Hundredths(x) * Limb
    IN  IF t2 = 0 /\ t1 % Limb = 0 THEN t0 % Limb
        ELSE IF t2 = -1 /\ t1 % Limb = Limb - 1 THEN (t0 % Limb) - Limb
        ELSE IF t2 >= 0 THEN Limb ELSE -Limb


-----------------------------------------------------------------------------
(* Exact fractions, for the scores that are quotients of small integers.   *)
(* Binary64 division is correctly rounded and monotone, and every          *)
(* threshold these scores are compared with (0.3, 0.6, 0.8, 1.0) differs   *)
(* from the nearest other quotient by far more than 2^-53, so each         *)
(* comparison in the code has the outcome it has on the exact fractions.   *)

RECURSIVE Gcd(_, _)
Gcd(m, n) == IF n = 0 THEN m ELSE Gcd(n, m % n)

\* the fraction n/d (d > 0, n >= 0) in lowest terms
Rat(n, d) ==
    LET g == Gcd(n, d) IN [num |-> n \div g, den |-> d \div g]

RatLess(x, y) == x.num * y.den < y.num * x.den
RatMul(x, y) == Rat(x.num * y.num, x.den * y.den)
RatAdd(x, y) ==
    LET g == Gcd(x.den, y.den)
    IN  Rat(x.num * (y.den \div g) + y.num * (x.den \div g),
            (x.den \div g) * y.den)
RatMin(x, y) == IF RatLess(y, x) THEN y ELSE x

-----------------------------------------------------------------------------
(* Resume texts                                                            *)
(*                                                                         *)
(* A text is [body |-> characters, pad |-> n]: the string body followed by *)
(* n copies of Filler.  Searches look at the body and the first two filler *)
(* words: a pattern of the program that occurs further inside the filler   *)
(* occurs there as well.                                                   *)

Filler == <<" ","z","z">>

Seen(t) ==
    t.body \o (IF t.pad >= 1 THEN Filler ELSE <<>>)
           \o (IF t.pad >= 2 THEN Filler ELSE <<>>)

\* the filler words that Seen leaves out
Unseen(t) == IF t.pad > 2 THEN t.pad - 2 ELSE 0

\* len(re.findall(c, text)) for a single character c
CountChar(c, t) ==
    Cardinality({i \in 1..Len(t.body) : t.body[i] = c})
      + t.pad * Cardinality({i \in 1..Len(Filler) : Filler[i] = c})

\* len(s.split()) : maximal runs of non-whitespace
WordsIn(s) ==
    Cardinality({i \in 1..Len(s) :
                    /\ ~IsSpace(s[i])
                    /\ (i = 1 \/ IsSpace(s[i - 1]))})

WordCount(t) == WordsIn(Seen(t)) + Unseen(t)

\* len(text)
CharCount(t) == Len(t.body) + t.pad * Len(Filler)

\* s.split('\n') : the positions where the lines start; the line that
\* starts at Len(s) + 1 is the empty line after a final newline
LineStarts(s) == {1} \cup {i + 1 : i \in {j \in 1..Len(s) : s[j] = "\n"}}

LineEnd(s, p) ==
    LET nl == {j \in p..Len(s) : s[j] = "\n"}
    IN  IF nl = {} THEN Len(s)
        ELSE (CHOOSE j \in nl : \A k \in nl : j <= k) - 1

\* line.strip() == ''
IsBlankLine(s, p) == \A j \in p..LineEnd(s, p) : IsSpace(s[j])


-----------------------------------------------------------------------------
(* ATSOptimizationEngine.__init__                                          *)

ATSSystemType == {"WORKDAY", "TALEO", "GREENHOUSE", "LEVER", "BAMBOO_HR", "GENERIC"}

\* a faulty profile: the file format weight folded into the section weight,
\* so that the four applied weights sum to one
ATSCriteriaFolded(k, f, l, s, ff) ==
    [keyword_weight |-> Rat(k, 100), format_weight |-> Rat(f, 100),
     length_weight |-> Rat(l, 100), section_weight |-> Rat(s + ff, 100),
     file_format_weight |-> Rat(ff, 100)]

\* weights in hundredths, as the decimal literals of the source give them
ATSCriteria(k, f, l, s, ff) ==
    [keyword_weight |-> Rat(k, 100), format_weight |-> Rat(f, 100),
     length_weight |-> Rat(l, 100), section_weight |-> Rat(s, 100),
     file_format_weight |-> Rat(ff, 100)]

ats_criteria ==
    [t \in {"WORKDAY", "TALEO", "GREENHOUSE", "GENERIC"} |->
        CASE t = "WORKDAY"    -> ATSCriteria(40, 20, 15, 15, 10)
          [] t = "TALEO"      -> ATSCriteria(45, 25, 10, 15, 5)
          [] t = "GREENHOUSE" -> ATSCriteria(35, 20, 20, 20, 5)
          [] t = "GENERIC"    -> ATSCriteria(40, 20, 15, 15, 10)]

\* the keys of section_patterns, in the order of the dict
SectionTypes ==
    <<"contact", "summary", "experience", "education", "skills", "certifications">>

\* A pattern is the sequence of its literal parts; consecutive parts are
\* joined by \s* (r'work\s*experience' is <<"work", "experience">>).
section_patterns ==
    [st \in Range(SectionTypes) |->
        CASE st = "contact"    -> << <<<<"c","o","n","t","a","c","t">>, <<"i","n","f","o","r","m","a","t","i","o","n">>>>,
                                     <<<<"p","e","r","s","o","n","a","l">>, <<"d","e","t","a","i","l","s">>>> >>
          [] st = "summary"    -> << <<<<"p","r","o","f","e","s","s","i","o","n","a","l">>, <<"s","u","m","m","a","r","y">>>>,
                                     <<<<"o","b","j","e","c","t","i","v","e">>>>, <<<<"p","r","o","f","i","l","e">>>> >>
          [] st = "experience" -> << <<<<"w","o","r","k">>, <<"e","x","p","e","r","i","e","n","c","e">>>>,
                                     <<<<"p","r","o","f","e","s","s","i","o","n","a","l">>, <<"e","x","p","e","r","i","e","n","c","e">>>>,
                                     <<<<"e","m","p","l","o","y","m","e","n","t">>>> >>
          [] st = "education"  -> << <<<<"e","d","u","c","a","t","i","o","n">>>>,
                                     <<<<"a","c","a","d","e","m","i","c">>, <<"b","a","c","k","g","r","o","u","n","d">>>> >>
          [] st = "skills"     -> << <<<<"s","k","i","l","l","s">>>>,
                                     <<<<"t","e","c","h","n","i","c","a","l">>, <<"s","k","i","l","l","s">>>>,
                                     <<<<"c","o","m","p","e","t","e","n","c","i","e","s">>>> >>
          [] st = "certifications" -> << <<<<"c","e","r","t","i","f","i","c","a","t","i","o","n","s">>>>,
                                         <<<<"l","i","c","e","n","s","e","s">>>>, <<<<"c","r","e","d","e","n","t","i","a","l","s">>>> >>]

\* the pattern matches s at position i
RECURSIVE PatternAt(_, _, _)
PatternAt(parts, s, i) ==
    /\ MatchAt(parts[1], s, i)
    /\ \/ Len(parts) = 1
       \/ PatternAt(Tail(parts), s, SkipSpace(s, i + Len(parts[1])))

\* re.search(pattern, text, re.IGNORECASE); low is the text in lower case
\* (the patterns are lower-case letters)
Search(parts, low) == \E i \in 1..Len(low) : PatternAt(parts, low, i)

\* some pattern of the section type matches (the inner loop with its break)
SectionFound(st, low) ==
    \E k \in 1..Len(section_patterns[st]) : Search(section_patterns[st][k], low)

\* the elements of seq that satisfy Keep, in order
RECURSIVE SelectTypes(_, _)
SelectTypes(seq, keep) ==
    IF seq = <<>> THEN <<>>
    ELSE (IF Head(seq) \in keep THEN <<Head(seq)>> ELSE <<>>)
            \o SelectTypes(Tail(seq), keep)

-----------------------------------------------------------------------------
(* ATSOptimizationEngine._analyze_sections                                 *)

AnalyzeSections(text) ==
    LET low   == Lower(Seen(text))
        found == [st \in Range(SectionTypes) |-> SectionFound(st, low)]
        n     == Cardinality({st \in Range(SectionTypes) : found[st]})
    IN  [score |-> Rat(n, Len(SectionTypes)),
         sections_found |-> found,
         missing_sections |->
            SelectTypes(SectionTypes, {st \in Range(SectionTypes) : ~found[st]})]

-----------------------------------------------------------------------------
(* ATSOptimizationEngine._analyze_format                                   *)

\* the characters U+2022, U+2192, U+2605, U+25C6, U+25AA, U+25AB, each one
\* character of the text, named by its code point
problematic_chars == <<"u2022", "u2192", "u2605", "u25C6", "u25AA", "u25AB">>

\* an issue is the tuple of its message and the values formatted into it
TabIssue == <<"Excessive use of tabs - use spaces instead">>
CharIssue(c) == <<"Contains special character '{char}' - use standard bullets", c>>
HeaderIssue == <<"Missing standard section headers">>
SpacingIssue == <<"Inconsistent spacing between sections">>

\* a faulty tab test: ten tabs are already too many
AtLeastTenTabs(text) == CountChar("\t", text) >= 10

\* more than 10 tab characters
TooManyTabs(text) == CountChar("\t", text) > 10

\* fewer than 4 section headers
TooFewHeaders(found) == found < 4

\* sum(1 for line in lines if line.strip() == '') / len(lines) > 0.3
InconsistentSpacing(text) ==
    LET s      == Seen(text)
        starts == LineStarts(s)
        blank  == {p \in starts : IsBlankLine(s, p)}
    IN  RatLess(Rat(3, 10), Rat(Cardinality(blank), Cardinality(starts)))

\* a faulty penalty: the amount is added to the full score
Reward(acc, applies, amount, issue) ==
    IF applies
    THEN <<FloatLiteral(100 + amount, 100), Append(acc[2], issue)>>
    ELSE acc

\* a faulty penalty: 0.08 instead of 0.05 for a special character
PenaliseCharactersMore(acc, applies, amount, issue) ==
    IF applies
    THEN <<FloatSub(acc[1], FloatLiteral(IF amount = 5 THEN 8 ELSE amount, 100)),
           Append(acc[2], issue)>>
    ELSE acc

\* `issues.append(issue); score -= amount` when the condition holds;
\* acc is <<score, issues>>, amount is in hundredths
Penalise(acc, applies, amount, issue) ==
    IF applies
    THEN <<FloatSub(acc[1], FloatLiteral(amount, 100)), Append(acc[2], issue)>>
    ELSE acc

\* the loop over problematic_chars, from the k-th on
RECURSIVE CharPenalties(_, _, _)
CharPenalties(text, k, acc) ==
    IF k > Len(problematic_chars) THEN acc
    ELSE Then(Penalise(acc, CountChar(problematic_chars[k], text) > 0, 5,
                       CharIssue(problematic_chars[k])),
              LAMBDA next : CharPenalties(text, k + 1, next))

AnalyzeFormat(text) ==
    LET low == Lower(Seen(text))
        section_headers_found ==
            Cardinality({st \in Range(SectionTypes) : SectionFound(st, low)})
    IN  Then(Penalise(<<FloatLiteral(1, 1), <<>>>>, TooManyTabs(text), 10, TabIssue),
        LAMBDA s1 :
        Then(CharPenalties(text, 1, s1),
        LAMBDA s2 :
        Then(Penalise(s2, TooFewHeaders(section_headers_found), 20, HeaderIssue),
        LAMBDA s3 :
        Then(Penalise(s3, InconsistentSpacing(text), 10, SpacingIssue),
        LAMBDA s4 :
            [score |-> FloatMax(s4[1], FloatLiteral(0, 1)),
             issues |-> s4[2],
             section_headers_found |-> section_headers_found]))))

-----------------------------------------------------------------------------
(* ATSOptimizationEngine._estimate_experience_level                        *)

\* the two year_patterns differ in the unit: years? and yrs?
year_units == <<<<"y","e","a","r">>, <<"y","r">>>>

\* int() of the digits s[i..j]
RECURSIVE IntOf(_, _, _)
IntOf(s, i, j) ==
    IF j < i THEN 0 ELSE 10 * IntOf(s, i, j - 1) + DigitValue(s[j])

\* end of the run of digits that starts at i
DigitsEnd(s, i) == SetMin({j \in i..Len(s) : ~IsDigit(s[j])} \cup {Len(s) + 1}) - 1

\* \+?\s*<unit>s?\s*(?:of\s*)?experience matches s at position i.  Each
\* optional part is taken when present: the literal that follows it never
\* starts with the character the part would give back.
YearsTailAt(unit, s, i) ==
    LET j1 == IF i <= Len(s) /\ s[i] = "+" THEN i + 1 ELSE i
        j2 == SkipSpace(s, j1)
        j3 == j2 + Len(unit)
        j4 == IF j3 <= Len(s) /\ s[j3] = "s" THEN j3 + 1 ELSE j3
        j5 == SkipSpace(s, j4)
    IN  /\ MatchAt(unit, s, j2)
        /\ \/ MatchAt(<<"e","x","p","e","r","i","e","n","c","e">>, s, j5)
           \/ /\ MatchAt(<<"o","f">>, s, j5)
              /\ MatchAt(<<"e","x","p","e","r","i","e","n","c","e">>, s, SkipSpace(s, j5 + 2))

\* re.findall(pattern, text, re.IGNORECASE) as the set of int(m): a match
\* starts at the first digit of a run and its group is the whole run
YearsFound(unit, low) ==
    {IntOf(low, i, DigitsEnd(low, i)) :
        i \in {k \in 1..Len(low) :
                 /\ IsDigit(low[k])
                 /\ (k = 1 \/ ~IsDigit(low[k - 1]))
                 /\ YearsTailAt(unit, low, DigitsEnd(low, k) + 1)}}

SetMax(S) == CHOOSE x \in S : \A y \in S : y <= x

senior_indicators ==
    {<<"s","e","n","i","o","r">>, <<"l","e","a","d">>, <<"p","r","i","n","c","i","p","a","l">>, <<"a","r","c","h","i","t","e","c","t">>, <<"m","a","n","a","g","e","r">>, <<"d","i","r","e","c","t","o","r">>}
executive_indicators ==
    {<<"c","e","o">>, <<"c","t","o">>, <<"v","p">>, <<"v","i","c","e"," ","p","r","e","s","i","d","e","n","t">>, <<"e","x","e","c","u","t","i","v","e">>}

\* the thresholds on max_years
LevelOfYears(max_years) ==
    IF max_years <= 2 THEN "entry_level"
    ELSE IF max_years <= 5 THEN "mid_level"
    ELSE IF max_years <= 10 THEN "senior_level"
    ELSE "executive"

\* the word count as a proxy
LevelOfWordCount(word_count) ==
    IF word_count > 600 THEN "senior_level"
    ELSE IF word_count > 400 THEN "mid_level"
    ELSE "entry_level"

EstimateExperienceLevel(text) ==
    LET low   == Lower(Seen(text))
        years == UNION {YearsFound(year_units[k], low) : k \in 1..Len(year_units)}
    IN  IF years # {} THEN LevelOfYears(SetMax(years))
        ELSE IF \E ind \in executive_indicators : Contains(low, ind)
             THEN "executive"
        ELSE IF \E ind \in senior_indicators : Contains(low, ind)
             THEN "senior_level"
        ELSE LevelOfWordCount(WordCount(text))

-----------------------------------------------------------------------------
(* ATSOptimizationEngine._analyze_length                                   *)

optimal_ranges ==
    [level \in {"entry_level", "mid_level", "senior_level", "executive"} |->
        CASE level = "entry_level"  -> <<300, 500>>
          [] level = "mid_level"    -> <<400, 700>>
          [] level = "senior_level" -> <<500, 800>>
          [] level = "executive"    -> <<600, 1000>>]

TooShortIssue(word_count) ==
    <<"Resume too short ({word_count} words). Add more details about experience and achievements.",
      word_count>>
TooLongIssue(word_count, optimal_max) ==
    <<"Resume too long ({word_count} words). Consider condensing to {optimal_max} words or less.",
      word_count, optimal_max>>

\* a faulty length score: the ratio of the word count to the nearer bound on
\* both sides of the range
LengthScoreToNearerBound(word_count, optimal_min, optimal_max) ==
    IF word_count < optimal_min
    THEN [score |-> Rat(word_count, optimal_min),
          issues |-> <<TooShortIssue(word_count)>>]
    ELSE IF word_count > optimal_max
    THEN [score |-> Rat(word_count, optimal_max),
          issues |-> <<TooLongIssue(word_count, optimal_max)>>]
    ELSE [score |-> Rat(1, 1), issues |-> <<>>]

\* a faulty length score: a resume that is too long gets its lower score but
\* no issue
LengthScoreWithoutLongIssue(word_count, optimal_min, optimal_max) ==
    IF word_count < optimal_min
    THEN [score |-> Rat(word_count, optimal_min),
          issues |-> <<TooShortIssue(word_count)>>]
    ELSE IF word_count > optimal_max
    THEN [score |-> Rat(optimal_max, word_count), issues |-> <<>>]
    ELSE [score |-> Rat(1, 1), issues |-> <<>>]

\* the score and the issues for a word count and an optimal range
LengthScore(word_count, optimal_min, optimal_max) ==
    IF word_count < optimal_min
    THEN [score |-> Rat(word_count, optimal_min),
          issues |-> <<TooShortIssue(word_count)>>]
    ELSE IF word_count > optimal_max
    THEN [score |-> Rat(optimal_max, word_count),
          issues |-> <<TooLongIssue(word_count, optimal_max)>>]
    ELSE [score |-> Rat(1, 1), issues |-> <<>>]

AnalyzeLength(text) ==
    Then(WordCount(text), LAMBDA word_count :
    Then(EstimateExperienceLevel(text), LAMBDA experience_level :
    Then(optimal_ranges[experience_level], LAMBDA optimal_range :
    Then(LengthScore(word_count, optimal_range[1], optimal_range[2]), LAMBDA r :
        [score |-> r.score,
         word_count |-> word_count,
         char_count |-> CharCount(text),
         estimated_experience_level |-> experience_level,
         optimal_range |-> optimal_range,
         issues |-> r.issues]))))


-----------------------------------------------------------------------------
(* ATSOptimizationEngine._extract_job_keywords                             *)

\* punctuation that nltk's word_tokenize splits from the end of a word
IsPunct(c) == c \in {".", ",", ":", ";"}

\* word_tokenize on the modelled job descriptions: the whitespace-separated
\* chunks, with punctuation at the end of a chunk as tokens of its own.
\* A token is a punctuation character that ends a chunk, or a maximal run
\* of other characters that are not whitespace.
EndsChunk(s, i) ==
    /\ IsPunct(s[i])
    /\ (i = Len(s) \/ IsSpace(s[i + 1]) \/ IsPunct(s[i + 1]))

InWord(s, i) == ~IsSpace(s[i]) /\ ~EndsChunk(s, i)

TokenStarts(s) ==
    {i \in 1..Len(s) : \/ EndsChunk(s, i)
                       \/ InWord(s, i) /\ (i = 1 \/ ~InWord(s, i - 1))}

TokenEnd(s, i) ==
    IF EndsChunk(s, i) THEN i
    ELSE SetMin({j \in i..Len(s) : ~InWord(s, j)} \cup {Len(s) + 1}) - 1

\* the elements of a set of integers, in increasing order
Sorted(S) ==
    [k \in 1..Cardinality(S) |->
        CHOOSE x \in S : Cardinality({y \in S : y < x}) = k - 1]

word_tokenize(s) ==
    LET starts == Sorted(TokenStarts(s))
    IN  [k \in 1..Len(starts) |-> SubSeq(s, starts[k], TokenEnd(s, starts[k]))]

\* words of nltk's English stop word list
english_stop_words ==
    {<<"a">>, <<"a","n">>, <<"a","n","d">>, <<"a","r","e">>, <<"f","o","r">>, <<"i","n">>, <<"i","s">>, <<"o","f">>,
     <<"o","r">>, <<"t","h","e">>, <<"t","o">>, <<"w","i","t","h">>, <<"w","i","l","l">>, <<"h","a","v","e">>, <<"o","u","r">>, <<"y","o","u">>}

job_stop_words ==
    {<<"e","x","p","e","r","i","e","n","c","e">>, <<"s","k","i","l","l","s">>, <<"r","e","q","u","i","r","e","m","e","n","t","s">>, <<"q","u","a","l","i","f","i","c","a","t","i","o","n","s">>,
     <<"p","r","e","f","e","r","r","e","d">>, <<"r","e","q","u","i","r","e","d">>, <<"m","u","s","t">>, <<"s","h","o","u","l","d">>, <<"y","e","a","r","s">>, <<"d","e","g","r","e","e">>}

stop_words == english_stop_words \cup job_stop_words

\* str.isalnum() and str.isdigit()
IsAlnum(w) == w # <<>> /\ \A i \in 1..Len(w) : IsAlpha(w[i]) \/ IsDigit(w[i])
IsAllDigits(w) == w # <<>> /\ \A i \in 1..Len(w) : IsDigit(w[i])

\* a faulty test of the single-word loop that forgets the stop words
LongAlnumToken(word) == Len(word) >= 3 /\ IsAlnum(word) /\ ~IsAllDigits(word)

\* the test of the single-word loop
IsKeywordToken(word) ==
    /\ Len(word) >= 3
    /\ word \notin stop_words
    /\ IsAlnum(word)
    /\ ~IsAllDigits(word)

\* every technical phrase pattern is \b(?: alternatives )\b
technical_phrases ==
    << <<<<"m","a","c","h","i","n","e"," ","l","e","a","r","n","i","n","g">>, <<"d","a","t","a"," ","s","c","i","e","n","c","e">>, <<"a","r","t","i","f","i","c","i","a","l"," ","i","n","t","e","l","l","i","g","e","n","c","e">>>>,
       <<<<"f","u","l","l"," ","s","t","a","c","k">>, <<"f","r","o","n","t"," ","e","n","d">>, <<"b","a","c","k"," ","e","n","d">>>>,
       <<<<"p","r","o","j","e","c","t"," ","m","a","n","a","g","e","m","e","n","t">>, <<"a","g","i","l","e"," ","d","e","v","e","l","o","p","m","e","n","t">>>>,
       <<<<"c","l","o","u","d"," ","c","o","m","p","u","t","i","n","g">>, <<"d","a","t","a","b","a","s","e"," ","d","e","s","i","g","n">>>>,
       <<<<"u","s","e","r"," ","e","x","p","e","r","i","e","n","c","e">>, <<"u","s","e","r"," ","i","n","t","e","r","f","a","c","e">>>> >>

\* p matches s at i between two word boundaries (p starts and ends with a
\* word character)
WordMatchAt(p, s, i) ==
    /\ MatchAt(p, s, i)
    /\ (i = 1 \/ ~IsWordChar(s[i - 1]))
    /\ (i + Len(p) > Len(s) \/ ~IsWordChar(s[i + Len(p)]))

\* re.findall(pattern, s) from position i on, for the alternatives alts:
\* the leftmost match, then the matches after its end
RECURSIVE FindPhrases(_, _, _)
FindPhrases(alts, s, i) ==
    LET hits == {j \in i..Len(s) : \E k \in 1..Len(alts) : WordMatchAt(alts[k], s, j)}
    IN  IF hits = {} THEN <<>>
        ELSE LET j == SetMin(hits)
                 k == SetMin({m \in 1..Len(alts) : WordMatchAt(alts[m], s, j)})
             IN  <<alts[k]>> \o FindPhrases(alts, s, j + Len(alts[k]))

FilterTokens(words) == SelectSeq(words, IsKeywordToken)

RECURSIVE AllPhrases(_, _)
AllPhrases(k, s) ==
    IF k > Len(technical_phrases) THEN <<>>
    ELSE FindPhrases(technical_phrases[k], s, 1) \o AllPhrases(k + 1, s)

\* Counter(keywords): the distinct elements in the order they first occur
Distinct(seq) ==
    LET first == Sorted({i \in 1..Len(seq) : \A j \in 1..(i - 1) : seq[j] # seq[i]})
    IN  [k \in 1..Len(first) |-> seq[first[k]]]

CountOf(x, seq) == Cardinality({i \in 1..Len(seq) : seq[i] = x})

\* the limit given to most_common
MostCommonLimit == 50

\* a faulty most_common that takes the first n keys as they were met
FirstKeys(keys, all, n) == SubSeq(keys, 1, IF Len(keys) < n THEN Len(keys) ELSE n)

\* Counter.most_common(n): by decreasing count, elements of equal count in
\* the order they were first counted.  keys are the distinct elements in
\* that order, all is the list that was counted.
MostCommon(keys, all, n) ==
    Then([i \in 1..Len(keys) |-> CountOf(keys[i], all)], LAMBDA count :
        LET Before(j, i) == count[j] > count[i] \/ (count[j] = count[i] /\ j < i)
            rank == [i \in 1..Len(keys) |->
                        Cardinality({j \in 1..Len(keys) : Before(j, i)})]
            size == IF Len(keys) < n THEN Len(keys) ELSE n
        IN  [r \in 1..size |-> keys[CHOOSE i \in 1..Len(keys) : rank[i] = r - 1]])

ExtractJobKeywords(jd) ==
    Then(Lower(jd), LAMBDA low :
    Then(FilterTokens(word_tokenize(low)) \o AllPhrases(1, low), LAMBDA keywords :
        MostCommon(Distinct(keywords), keywords, MostCommonLimit)))

-----------------------------------------------------------------------------
(* ATSOptimizationEngine._analyze_keywords, _calculate_keyword_density     *)

\* len(re.findall(r'\b' + keyword + r'\b', s)) when whole, s.count(keyword)
\* otherwise: occurrences from position i on, left to right, not overlapping
RECURSIVE Occurrences(_, _, _, _)
Occurrences(p, s, i, whole) ==
    LET hits == {j \in i..Len(s) :
                    IF whole THEN WordMatchAt(p, s, j) ELSE MatchAt(p, s, j)}
    IN  IF hits = {} THEN 0
        ELSE 1 + Occurrences(p, s, SetMin(hits) + Len(p), whole)

\* occurrences in the whole text: those seen, and those in the filler words
\* that Seen leaves out
Frequency(p, text, whole) ==
    Occurrences(p, Lower(Seen(text)), 1, whole)
       + Unseen(text) * Occurrences(p, Filler, 1, whole)

\* the entry appended to matched_keywords for a keyword found in the resume
KeywordMatch(keyword, text) ==
    LET low == Lower(Seen(text))
    IN  IF \E i \in 1..Len(low) : WordMatchAt(Lower(keyword), low, i)
        THEN [keyword |-> keyword, match_type |-> "exact",
              frequency |-> Frequency(Lower(keyword), text, TRUE)]
        ELSE [keyword |-> keyword, match_type |-> "partial",
              frequency |-> Frequency(Lower(keyword), text, FALSE)]

\* keyword.lower() in resume_lower
KeywordInResume(keyword, text) == Contains(Lower(Seen(text)), Lower(keyword))

\* a faulty loop: a keyword found in the resume is also listed as missing
RECURSIVE KeywordLoopBoth(_, _, _)
KeywordLoopBoth(job_keywords, text, lists) ==
    IF job_keywords = <<>> THEN lists
    ELSE Then(IF KeywordInResume(Head(job_keywords), text)
              THEN <<Append(lists[1], KeywordMatch(Head(job_keywords), text)),
                     Append(lists[2], Head(job_keywords))>>
              ELSE <<lists[1], Append(lists[2], Head(job_keywords))>>,
              LAMBDA next : KeywordLoopBoth(Tail(job_keywords), text, next))

\* the loop over job_keywords: lists is <<matched_keywords, missing_keywords>>
RECURSIVE KeywordLoop(_, _, _)
KeywordLoop(job_keywords, text, lists) ==
    IF job_keywords = <<>> THEN lists
    ELSE Then(IF KeywordInResume(Head(job_keywords), text)
              THEN <<Append(lists[1], KeywordMatch(Head(job_keywords), text)), lists[2]>>
              ELSE <<lists[1], Append(lists[2], Head(job_keywords))>>,
              LAMBDA next : KeywordLoop(Tail(job_keywords), text, next))

RECURSIVE SumFrequency(_)
SumFrequency(matched) ==
    IF matched = <<>> THEN 0
    ELSE Head(matched).frequency + SumFrequency(Tail(matched))

CalculateKeywordDensity(text, matched_keywords) ==
    LET total_words == WordCount(text)
    IN  IF total_words = 0 THEN Rat(0, 1)
        ELSE Rat(SumFrequency(matched_keywords) * 100, total_words)

\* a faulty keyword score: the coverage without its bonus
Coverage(matched, total) ==
    IF total # 0 THEN Rat(matched, total) ELSE Rat(0, 1)

\* min(keyword_coverage * 1.2, 1.0)
KeywordScore(matched, total) ==
    LET keyword_coverage == IF total # 0 THEN Rat(matched, total) ELSE Rat(0, 1)
    IN  RatMin(RatMul(keyword_coverage, Rat(12, 10)), Rat(1, 1))

AnalyzeKeywords(text, jd) ==
    Then(ExtractJobKeywords(jd), LAMBDA job_keywords :
    Then(KeywordLoop(job_keywords, text, <<<<>>, <<>>>>), LAMBDA lists :
        [score |-> KeywordScore(Len(lists[1]), Len(job_keywords)),
         matched_keywords |-> lists[1],
         missing_keywords |-> lists[2],
         total_job_keywords |-> Len(job_keywords),
         keyword_density |-> CalculateKeywordDensity(text, lists[1])]))


-----------------------------------------------------------------------------
(* ATSOptimizationEngine._generate_recommendations                         *)

\* a recommendation is the tuple of its message and the values formatted
\* into it, like an issue
MissingKeywordsTip(missing) ==
    <<"Add these missing keywords naturally throughout your resume: {', '.join(missing)}",
      missing>>
FormatTips ==
    << <<"Use standard section headers: Summary, Experience, Education, Skills">>,
       <<"Use simple bullet points (U+2022) instead of special characters">>,
       <<"Ensure consistent spacing between sections">> >>
TaleoTip == <<"For Taleo systems: Place keywords in the first 1/3 of your resume">>
WorkdayTip == <<"For Workday systems: Use exact keyword matches from job description">>

\* seq[:n]
Prefix(seq, n) == SubSeq(seq, 1, IF Len(seq) < n THEN Len(seq) ELSE n)

\* the thresholds of the three rules
KeywordsNeedWork(score) == RatLess(score, Rat(6, 10))
FormatNeedsWork(score) == FloatLess(score, FloatLiteral(80, 100))
LengthNeedsWork(score) == RatLess(score, Rat(8, 10))

VendorTips(t) ==
    IF t = "TALEO" THEN <<TaleoTip>>
    ELSE IF t = "WORKDAY" THEN <<WorkdayTip>>
    ELSE <<>>

\* [raised |-> the exception, or "none"; value |-> the list returned]
GenerateRecommendations(analysis, t) ==
    LET r1 == IF KeywordsNeedWork(analysis.keyword_analysis.score)
              THEN <<MissingKeywordsTip(
                        Prefix(analysis.keyword_analysis.missing_keywords, 5))>>
              ELSE <<>>
        r2 == IF FormatNeedsWork(analysis.format_analysis.score)
              THEN r1 \o FormatTips ELSE r1
        index_error == /\ LengthNeedsWork(analysis.length_analysis.score)
                       /\ analysis.length_analysis.issues = <<>>
        r3 == IF LengthNeedsWork(analysis.length_analysis.score) /\ ~index_error
              THEN Append(r2, analysis.length_analysis.issues[1]) ELSE r2
    IN  IF index_error THEN [raised |-> "IndexError", value |-> <<>>]
        ELSE [raised |-> "none", value |-> r3 \o VendorTips(t)]

-----------------------------------------------------------------------------
(* ATSOptimizationEngine.analyze_ats_compatibility                         *)

\* The format score as a fraction: its value to the nearest hundredth.  The
\* float differs from it by less than 2^-50; the overall score is modelled
\* in exact arithmetic, without the roundings of its products and sums.
FormatScoreValue(score) == Rat(Hundredths(score), 100)

\* a faulty overall score: the sum of the sub-scores, without the weights
UnweightedScore(criteria, keyword_score, format_score, length_score, section_score) ==
    RatAdd(RatAdd(RatAdd(keyword_score, FormatScoreValue(format_score)),
                  length_score),
           section_score)

\* a faulty overall score: the file format weight applied to a full score
ScoreWithFileFormat(criteria, keyword_score, format_score, length_score, section_score) ==
    RatAdd(RatAdd(RatAdd(RatAdd(RatMul(keyword_score, criteria.keyword_weight),
                                RatMul(FormatScoreValue(format_score), criteria.format_weight)),
                         RatMul(length_score, criteria.length_weight)),
                  RatMul(section_score, criteria.section_weight)),
           criteria.file_format_weight)

OverallScore(criteria, keyword_score, format_score, length_score, section_score) ==
    RatAdd(RatAdd(RatAdd(RatMul(keyword_score, criteria.keyword_weight),
                         RatMul(FormatScoreValue(format_score), criteria.format_weight)),
                  RatMul(length_score, criteria.length_weight)),
           RatMul(section_score, criteria.section_weight))

\* [raised |-> the exception, or "none"; value |-> the analysis returned]
AnalyzeATSCompatibility(text, jd, t) ==
    Then([overall_score |-> Rat(0, 1),
          keyword_analysis |-> AnalyzeKeywords(text, jd),
          format_analysis |-> AnalyzeFormat(text),
          length_analysis |-> AnalyzeLength(text),
          section_analysis |-> AnalyzeSections(text),
          recommendations |-> <<>>,
          missing_keywords |-> <<>>,
          optimization_suggestions |-> <<>>],
    LAMBDA analysis0 :
        IF t \notin DOMAIN ats_criteria
        THEN [raised |-> "KeyError", value |-> <<>>]
        ELSE
    Then([analysis0 EXCEPT !.overall_score =
              OverallScore(ats_criteria[t],
                           analysis0.keyword_analysis.score,
                           analysis0.format_analysis.score,
                           analysis0.length_analysis.score,
                           analysis0.section_analysis.score)],
    LAMBDA analysis1 :
    Then(GenerateRecommendations(analysis1, t),
    LAMBDA recs :
        IF recs.raised # "none"
        THEN [raised |-> recs.raised, value |-> <<>>]
        ELSE [raised |-> "none",
              value |-> [analysis1 EXCEPT !.recommendations = recs.value]])))


-----------------------------------------------------------------------------
(* The inputs the calls are made with                                      *)

MaxTabs == 11
MaxRepeat == 2
MaxBlankLines == 4
MaxHundreds == 11
MaxDelta == 5

\* s repeated n times
RECURSIVE Repeat(_, _)
Repeat(s, n) == IF n = 0 THEN <<>> ELSE s \o Repeat(s, n - 1)

\* the concatenation of the first n elements of a sequence of strings
RECURSIVE Concat(_, _)
Concat(seq, n) == IF n = 0 THEN <<>> ELSE Concat(seq, n - 1) \o seq[n]

\* the concatenation of the elements of seq whose index is in keep
RECURSIVE ConcatOf(_, _, _)
ConcatOf(seq, keep, n) ==
    IF n = 0 THEN <<>>
    ELSE ConcatOf(seq, keep, n - 1) \o (IF n \in keep THEN seq[n] ELSE <<>>)

Text(body, pad) == [body |-> body, pad |-> pad]

\* one heading line for each section type
HeadingLines ==
    <<<<"E","d","u","c","a","t","i","o","n","\n">>, <<"S","K","I","L","L","S","\n">>, <<"E","m","p","l","o","y","m","e","n","t","\n">>, <<"P","r","o","f","i","l","e","\n">>,
      <<"L","i","c","e","n","s","e","s","\n">>, <<"C","o","n","t","a","c","t"," ","I","n","f","o","r","m","a","t","i","o","n","\n">>>>

\* a line of bullets: the first k problematic characters, each r times
RECURSIVE Bullets(_, _)
Bullets(k, r) ==
    IF k = 0 THEN <<>>
    ELSE Bullets(k - 1, r) \o Repeat(<<problematic_chars[k], " ">>, r)

\* resumes that differ in what _analyze_format looks at
FormatResumes ==
    {Text(Concat(HeadingLines, h) \o Repeat(<<"\t">>, t) \o Bullets(k, r)
             \o Repeat(<<"\n">>, b), 0) :
        h \in {0, 3, 4, 6}, t \in {0} \cup 10..MaxTabs,
        k \in 0..Len(problematic_chars), r \in 1..MaxRepeat, b \in 0..MaxBlankLines}

\* what a resume says about the experience of its author
ExperienceLines ==
    {<<>>, <<"2"," ","y","e","a","r","s"," ","e","x","p","e","r","i","e","n","c","e">>, <<"5"," ","y","r","s"," ","o","f"," ","e","x","p","e","r","i","e","n","c","e">>,
     <<"8","+"," ","Y","e","a","r","s"," ","E","x","p","e","r","i","e","n","c","e">>, <<"1","0"," ","y","e","a","r","s"," ","o","f"," ","e","x","p","e","r","i","e","n","c","e",","," ","3"," ","y","e","a","r","s"," ","e","x","p","e","r","i","e","n","c","e">>,
     <<"1","1"," ","y","r","s"," ","e","x","p","e","r","i","e","n","c","e">>, <<"T","e","a","m"," ","L","e","a","d">>, <<"C","E","O">>, <<"E","n","g","i","n","e","e","r">>,
     <<"D","i","r","e","c","t","o","r">>, <<"C","E","O"," ","2"," ","y","e","a","r","s"," ","e","x","p","e","r","i","e","n","c","e">>}

\* word counts around every multiple of one hundred up to MaxHundreds
PadCounts ==
    {n \in {100 * k + d : k \in 0..MaxHundreds, d \in (-MaxDelta)..MaxDelta} : n >= 0}

\* resumes that differ in what _analyze_length looks at
LengthResumes == {Text(e, n) : e \in ExperienceLines, n \in PadCounts}

\* the words a resume may share with a job description
SkillWords ==
    <<<<"P","y","t","h","o","n"," ">>, <<"D","j","a","n","g","o"," ">>, <<"A","W","S"," ">>, <<"s","q","l",","," ">>, <<"D","o","c","k","e","r","f","i","l","e"," ">>,
      <<"L","i","n","u","x"," ">>, <<"m","a","c","h","i","n","e"," ","l","e","a","r","n","i","n","g"," ">>, <<"M","a","c","h","i","n","e"," "," ","L","e","a","r","n","i","n","g"," ">>>>

KeywordResumes ==
    {Text(ConcatOf(SkillWords, keep, Len(SkillWords)), 0) :
        keep \in SUBSET (1..Len(SkillWords))}

JobDescriptions ==
    {<<>>, <<" "," ","\n"," ">>,
     <<"P","y","t","h","o","n"," ","d","e","v","e","l","o","p","e","r"," ","r","e","q","u","i","r","e","d"," ","w","i","t","h"," ","D","j","a","n","g","o"," ","e","x","p","e","r","i","e","n","c","e","."," ","A","W","S"," ","p","r","e","f","e","r","r","e","d",".">>,
     <<"p","y","t","h","o","n"," ","d","j","a","n","g","o"," ","a","w","s"," ","s","q","l"," ","d","o","c","k","e","r"," ","l","i","n","u","x">>,
     <<"M","a","c","h","i","n","e"," ","l","e","a","r","n","i","n","g"," ","e","n","g","i","n","e","e","r",":"," ","P","y","t","h","o","n",","," ","S","Q","L",","," ","p","y","t","h","o","n"," ","a","n","d"," ","5"," ","y","e","a","r","s"," ","e","x","p","e","r","i","e","n","c","e">>}

\* resumes for the whole analysis: empty, short, and full resumes with h
\* headings, k skill words, bullets and n filler words
MainResumes ==
    {Text(Concat(HeadingLines, h) \o Concat(SkillWords, k) \o Bullets(c, 1)
             \o Repeat(<<"\n">>, b), n) :
        h \in {0, 3, 6}, k \in {0, 6}, c \in {0, 4},
        b \in {0, MaxBlankLines}, n \in {0, 300, 900}}


-----------------------------------------------------------------------------
(* The calls                                                               *)

\* the attributes of an engine after __init__
NewEngine == [ats_criteria |-> ats_criteria, section_patterns |-> section_patterns]

\* a variant of the engine after a call: the call has dropped the section
\* patterns
EngineWithoutPatterns(e) == [e EXCEPT !.section_patterns = <<>>]

\* the attributes of the engine e after a call of one of its methods: no
\* method assigns to an attribute of self or changes the two dicts
EngineAfterCall(e) == e

NoCall ==
    /\ method = "none"
    /\ ats_type = "none"
    /\ outcome = "none"
    /\ ret = <<>>
    /\ engine = NewEngine
    /\ calls = <<>>

\* a call of a method that cannot raise returns v
Return(m, v) ==
    /\ method = "none"
    /\ method' = m
    /\ outcome' = "returned"
    /\ ret' = v
    /\ engine' = EngineAfterCall(engine)
    /\ UNCHANGED <<resume_text, job_description, calls>>

CallAnalyzeATSCompatibility(t) ==
    /\ method = "none"
    /\ \E r \in {AnalyzeATSCompatibility(resume_text, job_description, t)} :
          /\ method' = "analyze_ats_compatibility"
          /\ ats_type' = t
          /\ outcome' = IF r.raised = "none" THEN "returned" ELSE r.raised
          /\ ret' = r.value
          /\ engine' = EngineAfterCall(engine)
          /\ UNCHANGED <<resume_text, job_description, calls>>

CallAnalyzeFormat ==
    /\ Return("_analyze_format", AnalyzeFormat(resume_text))
    /\ UNCHANGED ats_type

CallAnalyzeLength ==
    /\ Return("_analyze_length", AnalyzeLength(resume_text))
    /\ UNCHANGED ats_type

CallAnalyzeKeywords ==
    /\ Return("_analyze_keywords", AnalyzeKeywords(resume_text, job_description))
    /\ UNCHANGED ats_type

\* analyze_ats_compatibility, for every system type a caller can pass
Init ==
    /\ resume_text \in MainResumes
    /\ job_description \in JobDescriptions
    /\ NoCall

Next == \E t \in ATSSystemType : CallAnalyzeATSCompatibility(t)

Spec == Init /\ [][Next]_vars

\* _analyze_format alone
InitFormat ==
    /\ resume_text \in FormatResumes
    /\ job_description = <<>>
    /\ NoCall

SpecFormat == InitFormat /\ [][CallAnalyzeFormat]_vars

\* _analyze_length alone
InitLength ==
    /\ resume_text \in LengthResumes
    /\ job_description = <<>>
    /\ NoCall

SpecLength == InitLength /\ [][CallAnalyzeLength]_vars

\* _estimate_experience_level alone
CallEstimateExperienceLevel ==
    /\ Return("_estimate_experience_level", EstimateExperienceLevel(resume_text))
    /\ UNCHANGED ats_type

SpecExperience == InitLength /\ [][CallEstimateExperienceLevel]_vars

\* _analyze_keywords alone
InitKeywords ==
    /\ resume_text \in KeywordResumes
    /\ job_description \in JobDescriptions
    /\ NoCall

SpecKeywords == InitKeywords /\ [][CallAnalyzeKeywords]_vars

\* _extract_job_keywords alone.  The job descriptions are the texts of up to
\* MaxJobWords pieces, and a text of 52 different words, the last two of
\* them twice.
MaxJobWords == 2

JobPieces ==
    <<<<"P","y","t","h","o","n"," ">>, <<"p","y","t","h","o","n",","," ">>, <<"S","Q","L",":"," ">>, <<"5"," ">>, <<"2","0","2","4"," ">>,
      <<"t","o"," ">>, <<"G","o"," ">>, <<"t","h","e"," ">>, <<"e","x","p","e","r","i","e","n","c","e"," ">>, <<"R","e","q","u","i","r","e","d",","," ">>,
      <<"y","e","a","r","s"," ">>, <<"c","+","+"," ">>, <<"k","8","s"," ">>, <<"m","a","c","h","i","n","e"," ","l","e","a","r","n","i","n","g"," ">>,
      <<"D","a","t","a"," ","S","c","i","e","n","c","e",","," ">>, <<"\n"," ">>>>

\* the texts of at most n pieces
RECURSIVE PieceTexts(_)
PieceTexts(n) ==
    IF n = 0 THEN {<<>>}
    ELSE LET shorter == PieceTexts(n - 1)
         IN  shorter \cup {s \o JobPieces[k] : s \in shorter, k \in 1..Len(JobPieces)}

\* the i-th of 26 * 26 three-letter words that are no stop words
ManyWord(i) == <<"k", LowerCase[((i - 1) \div 26) + 1], LowerCase[((i - 1) % 26) + 1], " ">>

RECURSIVE ManyWords(_)
ManyWords(n) == IF n = 0 THEN <<>> ELSE ManyWords(n - 1) \o ManyWord(n)

LongJobDescription ==
    ManyWords(MostCommonLimit + 2) \o ManyWord(MostCommonLimit + 2)
        \o ManyWord(MostCommonLimit + 1)

ExtractJobDescriptions == PieceTexts(MaxJobWords) \cup {LongJobDescription}

CallExtractJobKeywords ==
    /\ Return("_extract_job_keywords", ExtractJobKeywords(job_description))
    /\ UNCHANGED ats_type

InitExtract ==
    /\ resume_text = Text(<<>>, 0)
    /\ job_description \in ExtractJobDescriptions
    /\ NoCall

SpecExtract == InitExtract /\ [][CallExtractJobKeywords]_vars

\* Several calls of analyze_ats_compatibility on one engine.  calls is the
\* history: the arguments of each call with what it raised or returned.
MaxCalls == 3

EngineResumes ==
    {Text(<<>>, 0),
     Text(HeadingLines[1] \o SkillWords[1] \o SkillWords[2] \o Bullets(4, 1), 300)}

EngineJobDescriptions == {j \in JobDescriptions : Len(j) = 0 \/ Len(j) > 65}

EngineTypes == {"TALEO", "LEVER"}

CallOnEngine(text, jd, t) ==
    /\ Len(calls) < MaxCalls
    /\ \E r \in {AnalyzeATSCompatibility(text, jd, t)} :
          /\ resume_text' = text
          /\ job_description' = jd
          /\ ats_type' = t
          /\ method' = "analyze_ats_compatibility"
          /\ outcome' = IF r.raised = "none" THEN "returned" ELSE r.raised
          /\ ret' = r.value
          /\ engine' = EngineAfterCall(engine)
          /\ calls' = Append(calls, [resume_text |-> text, job_description |-> jd,
                                     ats_type |-> t, raised |-> r.raised,
                                     report |-> r.value])

InitEngine ==
    /\ resume_text = Text(<<>>, 0)
    /\ job_description = <<>>
    /\ NoCall

NextEngine ==
    \E text \in EngineResumes, jd \in EngineJobDescriptions, t \in EngineTypes :
        CallOnEngine(text, jd, t)

SpecEngine == InitEngine /\ [][NextEngine]_vars



-----------------------------------------------------------------------------
(* Properties of analyze_ats_compatibility (specification Spec)            *)

\* C1: for every resume text, job description and profile that has a weight
\* record, the call returns and the overall_score of the report lies in
\* [0, 1]; the empty resume and the empty job description included.
C1_OverallScoreInUnitInterval ==
    (method = "analyze_ats_compatibility" /\ ats_type \in DOMAIN ats_criteria) =>
        /\ outcome = "returned"
        /\ ~RatLess(ret.overall_score, Rat(0, 1))
        /\ ~RatLess(Rat(1, 1), ret.overall_score)

\* the empty resume analysed against a job description that has keywords:
\* only the format score is above zero
C1_Witness ==
    /\ method = "analyze_ats_compatibility"
    /\ ats_type \in DOMAIN ats_criteria
    /\ resume_text = Text(<<>>, 0)
    /\ job_description # <<>>
    /\ outcome = "returned"
    /\ ret.keyword_analysis.total_job_keywords > 0
    /\ RatLess(Rat(0, 1), ret.overall_score)

\* C3: the overall_score of a report is keyword score * keyword_weight +
\* format score * format_weight + length score * length_weight + section
\* score * section_weight, for the weights of the selected profile and the
\* scores of the sub-reports of the same report; file_format_weight adds
\* nothing to it.
C3_OverallScoreIsWeightedSum ==
    (method = "analyze_ats_compatibility" /\ outcome = "returned") =>
        LET w  == ats_criteria[ats_type]
            kw == RatMul(ret.keyword_analysis.score, w.keyword_weight)
            fm == RatMul(FormatScoreValue(ret.format_analysis.score), w.format_weight)
            ln == RatMul(ret.length_analysis.score, w.length_weight)
            sc == RatMul(ret.section_analysis.score, w.section_weight)
        IN  ret.overall_score = RatAdd(RatAdd(RatAdd(kw, fm), ln), sc)

\* a report in which each of the four terms is above zero
C3_Witness ==
    /\ method = "analyze_ats_compatibility"
    /\ outcome = "returned"
    /\ RatLess(Rat(0, 1), ret.keyword_analysis.score)
    /\ RatLess(Rat(0, 1), ret.length_analysis.score)
    /\ RatLess(Rat(0, 1), ret.section_analysis.score)
    /\ RatLess(ret.section_analysis.score, Rat(1, 1))
    /\ Hundredths(ret.format_analysis.score) < 100

C5_NeverRaisesForEmptyInputs ==
    (/\ method = "analyze_ats_compatibility"
     /\ (resume_text = Text(<<>>, 0) \/ job_description = <<>>)) =>
        /\ outcome = "returned"
        /\ {"overall_score", "keyword_analysis", "format_analysis",
            "length_analysis", "section_analysis", "recommendations"}
              \subseteq DOMAIN ret
        /\ ret.keyword_analysis.total_job_keywords = 0 =>
              ret.keyword_analysis.score = Rat(0, 1)


-----------------------------------------------------------------------------
(* Properties of _analyze_keywords (specification SpecKeywords)            *)

\* C2: the keyword analysis partitions the keywords extracted from the job
\* description: every job keyword is in exactly one of matched_keywords and
\* missing_keywords, the two have no keyword in common, together they are
\* the job keywords, and total_job_keywords = |matched| + |missing|.
C2_KeywordsPartitioned ==
    method = "_analyze_keywords" =>
        LET job_keywords == ExtractJobKeywords(job_description)
            matched == [i \in DOMAIN ret.matched_keywords |->
                           ret.matched_keywords[i].keyword]
            missing == ret.missing_keywords
            Times(k, seq) == Cardinality({i \in DOMAIN seq : seq[i] = k})
        IN  /\ \A k \in Range(job_keywords) : Times(k, matched) + Times(k, missing) = 1
            /\ Range(matched) \cap Range(missing) = {}
            /\ Range(matched) \cup Range(missing) = Range(job_keywords)
            /\ ret.total_job_keywords = Len(matched) + Len(missing)
            /\ ret.total_job_keywords = Len(job_keywords)

\* an analysis with keywords on both sides
C2_Witness ==
    /\ method = "_analyze_keywords"
    /\ Len(ret.matched_keywords) >= 2
    /\ Len(ret.missing_keywords) >= 2

\* C8: the keyword score is min(1.2 * |matched| / |job keywords|, 1.0), and
\* zero when the job description gives no keywords; it is 1.0 as soon as
\* five sixths of the job keywords are matched.
C8_KeywordScoreFormula ==
    method = "_analyze_keywords" =>
        LET m == Len(ret.matched_keywords)
            n == Len(ExtractJobKeywords(job_description))
        IN  /\ n = 0 => ret.score = Rat(0, 1)
            /\ n > 0 => ret.score.num * 10 * n
                           = ret.score.den * (IF 12 * m < 10 * n THEN 12 * m ELSE 10 * n)
            /\ (n > 0 /\ 6 * m >= 5 * n) => ret.score = Rat(1, 1)
            /\ (n > 0 /\ 6 * m < 5 * n) => RatLess(ret.score, Rat(1, 1))

\* five of six job keywords matched: the score is 1.0 though one is missing
C8_Witness ==
    /\ method = "_analyze_keywords"
    /\ Len(ret.matched_keywords) = 5
    /\ Len(ret.missing_keywords) = 1
    /\ ret.score = Rat(1, 1)

-----------------------------------------------------------------------------
(* Properties of _analyze_format (specification SpecFormat)                *)

\* C6: the format score is in [0.0, 1.0] for every resume text, whatever
\* penalties apply together.
C6_FormatScoreInUnitInterval ==
    method = "_analyze_format" =>
        /\ ~FloatLess(ret.score, FloatLiteral(0, 1))
        /\ ~FloatLess(FloatLiteral(1, 1), ret.score)

\* the nine penalties at once
C6_Witness ==
    /\ method = "_analyze_format"
    /\ Len(ret.issues) = 9
    /\ FloatLess(ret.score, FloatLiteral(31, 100))

-----------------------------------------------------------------------------
(* Properties of _analyze_length (specification SpecLength)                *)

\* C9 as the specification states it: the length score is 1.0 when the word
\* count is inside the optimal range of the estimated level, and outside it
\* it is the word count divided by the nearer bound of the range, for too
\* short and for too long resumes alike.
C9_ScoreIsCountOverNearerBound ==
    method = "_analyze_length" =>
        LET range == optimal_ranges[EstimateExperienceLevel(resume_text)]
            n     == WordCount(resume_text)
        IN  ret.score = IF n < range[1] THEN Rat(n, range[1])
                        ELSE IF n > range[2] THEN Rat(n, range[2])
                        ELSE Rat(1, 1)

\* C9, amended: the length score is 1.0 when the word count is inside the
\* optimal range of the estimated level (bounds included); it is word count
\* / lower bound when the resume is too short and upper bound / word count
\* when it is too long, so it is below 1.0 on both sides.
C9_LengthScoreRatios ==
    method = "_analyze_length" =>
        LET range == optimal_ranges[EstimateExperienceLevel(resume_text)]
            n     == WordCount(resume_text)
        IN  /\ ret.score = IF n < range[1] THEN Rat(n, range[1])
                           ELSE IF n > range[2] THEN Rat(range[2], n)
                           ELSE Rat(1, 1)
            /\ (n < range[1] \/ n > range[2]) <=> RatLess(ret.score, Rat(1, 1))

\* a resume that is too long
C9_Witness ==
    /\ method = "_analyze_length"
    /\ ret.word_count > ret.optimal_range[2]
    /\ ret.score = Rat(ret.optimal_range[2], ret.word_count)
    /\ RatLess(ret.score, Rat(1, 1))

\* C10: the length analysis has exactly one issue when the word count is
\* outside the optimal range and none when it is inside; the issue states
\* the direction (too short or too long) and the target word count, the
\* bound of the range that was missed.
C10_IssueStatesDirectionAndTarget ==
    method = "_analyze_length" =>
        LET range == optimal_ranges[EstimateExperienceLevel(resume_text)]
            n     == WordCount(resume_text)
            StatesTarget(issue, target) ==
                \E i \in 2..Len(issue) : issue[i] = target
        IN  /\ n < range[1] =>
                 /\ Len(ret.issues) = 1
                 /\ ret.issues[1][1] = TooShortIssue(n)[1]
                 /\ StatesTarget(ret.issues[1], range[1])
            /\ n > range[2] =>
                 /\ Len(ret.issues) = 1
                 /\ ret.issues[1][1] = TooLongIssue(n, range[2])[1]
                 /\ StatesTarget(ret.issues[1], range[2])
            /\ (n >= range[1] /\ n <= range[2]) => ret.issues = <<>>


-----------------------------------------------------------------------------
(* Properties of _estimate_experience_level (specification SpecExperience) *)

\* C11: the experience level is decided by the first rule that applies:
\* (1) when an 'N years/yrs experience' phrase is present, the largest N
\* decides (<= 2 entry, <= 5 mid, <= 10 senior, above executive), whatever
\* the titles and the word count; (2) otherwise the title keywords decide,
\* a senior keyword (senior, lead, principal, architect, manager, director)
\* giving senior_level and an executive keyword (ceo, cto, vp, vice
\* president, executive) giving executive; (3) otherwise the word count
\* decides (> 600 senior, > 400 mid, else entry).
C11_FirstApplicableRuleDecides ==
    method = "_estimate_experience_level" =>
        LET low   == Lower(Seen(resume_text))
            years == UNION {YearsFound(year_units[k], low) : k \in 1..Len(year_units)}
            Word(set)   == \E w \in set : \E i \in 1..Len(low) : WordMatchAt(w, low, i)
            Inside(set) == \E w \in set : Contains(low, w)
            n     == WordCount(resume_text)
        IN  /\ years # {} =>
                 LET max_years == SetMax(years)
                 IN  ret = IF max_years <= 2 THEN "entry_level"
                           ELSE IF max_years <= 5 THEN "mid_level"
                           ELSE IF max_years <= 10 THEN "senior_level"
                           ELSE "executive"
            /\ (years = {} /\ Word(senior_indicators) /\ ~Word(executive_indicators)) =>
                 ret = "senior_level"
            /\ (years = {} /\ Word(executive_indicators) /\ ~Word(senior_indicators)) =>
                 ret = "executive"
            /\ (years = {} /\ ~Inside(senior_indicators) /\ ~Inside(executive_indicators)) =>
                 ret = IF n > 600 THEN "senior_level"
                       ELSE IF n > 400 THEN "mid_level"
                       ELSE "entry_level"


-----------------------------------------------------------------------------
(* Properties of _generate_recommendations (specification Spec)            *)

C13_EndsWithOneVendorTip ==
    (method = "analyze_ats_compatibility" /\ outcome = "returned") =>
        LET recs    == ret.recommendations
            general == Range(FormatTips)
                         \cup {rec \in Range(recs) : rec[1] = MissingKeywordsTip(<<>>)[1]}
                         \cup Range(ret.length_analysis.issues)
        IN  /\ recs # <<>>
            /\ recs[Len(recs)] \notin general
            /\ Cardinality({i \in DOMAIN recs : recs[i] \notin general}) = 1
            /\ ats_type = "TALEO" => recs[Len(recs)] = TaleoTip
            /\ ats_type = "WORKDAY" => recs[Len(recs)] = WorkdayTip
            /\ \A t \in DOMAIN ats_criteria \ {ats_type} :
                  recs[Len(recs)] \notin Range(VendorTips(t))


-----------------------------------------------------------------------------
(* Properties of a sequence of calls on one engine (specification          *)
(* SpecEngine)                                                             *)

-----------------------------------------------------------------------------
(* Properties of _extract_job_keywords (specification SpecExtract)         *)

\* the keywords the two loops of _extract_job_keywords collect, before they
\* are counted
ExtractedKeywords(jd) ==
    FilterTokens(word_tokenize(Lower(jd))) \o AllPhrases(1, Lower(jd))

\* C15: every keyword returned by _extract_job_keywords occurs once in the
\* list and has at least three characters; every keyword that is a single
\* word consists of letters and digits only, is not a number and is not a
\* stop word; in particular 'experience', 'required' and 'years' are never
\* returned.
C15_KeywordsUniqueAndFiltered ==
    method = "_extract_job_keywords" =>
        /\ \A i, j \in DOMAIN ret : ret[i] = ret[j] => i = j
        /\ \A i \in DOMAIN ret :
              /\ Len(ret[i]) >= 3
              /\ " " \notin Range(ret[i]) =>
                    /\ \A c \in Range(ret[i]) : IsAlpha(c) \/ IsDigit(c)
                    /\ \E c \in Range(ret[i]) : ~IsDigit(c)
                    /\ ret[i] \notin english_stop_words \cup job_stop_words
        /\ <<"e","x","p","e","r","i","e","n","c","e">> \notin Range(ret)
        /\ <<"r","e","q","u","i","r","e","d">> \notin Range(ret)
        /\ <<"y","e","a","r","s">> \notin Range(ret)

\* a job description with a stop word and a phrase: the phrase and its two
\* words are returned, the stop word is not
C15_Witness ==
    /\ method = "_extract_job_keywords"
    /\ <<"e","x","p","e","r","i","e","n","c","e">> \in Range(word_tokenize(Lower(job_description)))
    /\ ret = <<<<"m","a","c","h","i","n","e">>, <<"l","e","a","r","n","i","n","g">>, <<"m","a","c","h","i","n","e"," ","l","e","a","r","n","i","n","g">>>>

\* C16: _extract_job_keywords returns at most 50 keywords, in the order of
\* non-increasing count (the number of times the job description yielded
\* the keyword), no keyword left out has a strictly higher count than a
\* returned one, and a job description that is empty or only white space
\* yields the empty list.
C16_TopFiftyByCount ==
    method = "_extract_job_keywords" =>
        LET all      == ExtractedKeywords(job_description)
            Count(w) == Cardinality({i \in DOMAIN all : all[i] = w})
        IN  /\ Len(ret) <= 50
            /\ Range(ret) \subseteq Range(all)
            /\ \A i, j \in DOMAIN ret : i < j => Count(ret[i]) >= Count(ret[j])
            /\ \A w \in Range(all) \ Range(ret) :
                  /\ Len(ret) = 50
                  /\ \A i \in DOMAIN ret : Count(w) <= Count(ret[i])
            /\ (\A i \in DOMAIN job_description : job_description[i] \in {" ", "\n", "\t"})
                  => (outcome = "returned" /\ ret = <<>>)

\* more than fifty keywords, the two that occur twice are the last to be
\* met and the first to be returned
C16_Witness ==
    /\ method = "_extract_job_keywords"
    /\ Cardinality(Range(ExtractedKeywords(job_description))) > 50
    /\ Len(ret) = 50
    /\ ret[1] = <<"k","b","y">>
    /\ ret[2] = <<"k","b","z">>
    /\ ret[3] = <<"k","a","a">>


-----------------------------------------------------------------------------
(* Regular expressions (Python's re), as used by the resume parser         *)
(* (src/scripts/parsers/enhanced_parser.py)                                *)
(*                                                                         *)
(* A pattern is a tree; Ends(n, s, i) is the list of the positions where a *)
(* match of n that starts at position i of s can end (the position after   *)
(* its last character), in the order in which the backtracking matcher     *)
(* tries them.  The match re reports is the first one.                     *)

In(cs)       == [t |-> "in", cs |-> cs]            \* [...]
NotIn(cs)    == [t |-> "notin", cs |-> cs]         \* [^...]
Cat(ns)      == [t |-> "seq", of |-> ns]           \* n1 n2 ...
Alt(ns)      == [t |-> "alt", of |-> ns]           \* n1|n2|...
\* n{min,max} for a one-character pattern n (max = -1: no limit), greedy
\* or lazy
Run(n, min, max, greedy) ==
    [t |-> "run", of |-> <<n>>, min |-> min, max |-> max, greedy |-> greedy]
WordBoundary == [t |-> "b"]                        \* \b
Ahead(n)     == [t |-> "ahead", of |-> <<n>>]      \* (?=n)
EndOfText    == [t |-> "end"]                      \* \Z
Empty        == [t |-> "seq", of |-> <<>>]
Opt(n)       == Alt(<<n, Empty>>)                  \* (?:n)?
\* a literal; ic: under re.IGNORECASE
Lit(str)     == [t |-> "lit", str |-> str, ic |-> FALSE]
LitI(str)    == [t |-> "lit", str |-> str, ic |-> TRUE]

Letters   == Range(LowerCase) \cup Range(UpperCase)
WordChars == Letters \cup Range(Digits) \cup {"_"}               \* \w
Spaces    == {" ", "\t", "\n"}                                   \* \s
Digit     == In(Range(Digits))                                   \* \d
AnyChar   == NotIn({})                                           \* . (DOTALL)

CharMatches(n, c) == IF n.t = "in" THEN c \in n.cs ELSE c \notin n.cs

AtWordBoundary(s, i) ==
    (i > 1 /\ s[i - 1] \in WordChars) # (i <= Len(s) /\ s[i] \in WordChars)

\* the concatenation of the sequences of ss
RECURSIVE Flatten(_)
Flatten(ss) ==
    Then(ss \o <<>>, LAMBDA all :
        IF all = <<>> THEN <<>>
        ELSE IF Len(all) = 1 THEN all[1]
        ELSE Flatten(SubSeq(all, 1, Len(all) \div 2))
                 \o Flatten(SubSeq(all, Len(all) \div 2 + 1, Len(all))))

\* the ends of a run of n from i: every length from min to the longest
\* run, longest first when greedy
RunEnds(n, s, i) ==
    LET stop    == SetMin({j \in i..Len(s) : ~CharMatches(n.of[1], s[j])}
                          \cup {IF i > Len(s) THEN i ELSE Len(s) + 1})
        longest == IF n.max >= 0 /\ stop - i > n.max THEN n.max ELSE stop - i
        count   == longest - n.min + 1
    IN  IF count <= 0 THEN <<>>
        ELSE [k \in 1..count |->
                 IF n.greedy THEN i + longest - (k - 1) ELSE i + n.min + (k - 1)]

LitMatchesAt(n, s, i) ==
    /\ i + Len(n.str) - 1 <= Len(s)
    /\ \A j \in 1..Len(n.str) :
          IF n.ic THEN LowerChar(s[i + j - 1]) = LowerChar(n.str[j])
          ELSE s[i + j - 1] = n.str[j]

RECURSIVE Ends(_, _, _)
RECURSIVE SeqEnds(_, _, _, _)
\* the ends of ns[k], ns[k+1], ... from i
SeqEnds(ns, k, s, i) ==
    IF k > Len(ns) THEN <<i>>
    ELSE Then(Ends(ns[k], s, i), LAMBDA first :
             Flatten([j \in 1..Len(first) |-> SeqEnds(ns, k + 1, s, first[j])]))

Ends(n, s, i) ==
    CASE n.t \in {"in", "notin"} ->
            IF i <= Len(s) /\ CharMatches(n, s[i]) THEN <<i + 1>> ELSE <<>>
      [] n.t = "lit"   -> IF LitMatchesAt(n, s, i) THEN <<i + Len(n.str)>> ELSE <<>>
      [] n.t = "run"   -> RunEnds(n, s, i)
      [] n.t = "b"     -> IF AtWordBoundary(s, i) THEN <<i>> ELSE <<>>
      [] n.t = "end"   -> IF i = Len(s) + 1 THEN <<i>> ELSE <<>>
      [] n.t = "ahead" -> IF Ends(n.of[1], s, i) # <<>> THEN <<i>> ELSE <<>>
      [] n.t = "seq"   -> SeqEnds(n.of, 1, s, i)
      [] n.t = "alt"   -> Flatten([k \in 1..Len(n.of) |-> Ends(n.of[k], s, i)])

NoMatch == [start |-> 0, end |-> 0]

\* re.search(n, s) from position i on: the leftmost match, <<start, end>>
\* with end the position after the match
re_search(n, s, i) ==
    LET hits == {j \in i..(Len(s) + 1) : Ends(n, s, j) # <<>>}
    IN  IF hits = {} THEN NoMatch
        ELSE Then(SetMin(hits), LAMBDA j : [start |-> j, end |-> Ends(n, s, j)[1]])

\* match.group()
Group(s, m) == SubSeq(s, m.start, m.end - 1)

\* the matches of re.finditer(n, s) from position i on: left to right, not
\* overlapping; after an empty match the scan moves on by one character
RECURSIVE re_finditer(_, _, _)
re_finditer(n, s, i) ==
    Then(re_search(n, s, i), LAMBDA m :
        IF m = NoMatch THEN <<>>
        ELSE <<m>> \o re_finditer(n, s, IF m.end > m.start THEN m.end ELSE m.end + 1))

\* re.findall(n, s) for a pattern without groups
re_findall(n, s) ==
    Then(re_finditer(n, s, 1), LAMBDA ms : [k \in 1..Len(ms) |-> Group(s, ms[k])])

\* re.split(n, s) for a pattern without groups whose matches are not empty
re_split(n, s) ==
    Then(re_finditer(n, s, 1), LAMBDA ms :
        [k \in 1..(Len(ms) + 1) |->
            SubSeq(s, IF k = 1 THEN 1 ELSE ms[k - 1].end,
                      IF k > Len(ms) THEN Len(s) ELSE ms[k].start - 1)])

\* str.strip()
Strip(s) ==
    LET inked == {i \in 1..Len(s) : s[i] \notin Spaces}
    IN  IF inked = {} THEN <<>>
        ELSE SubSeq(s, SetMin(inked), CHOOSE i \in inked : \A j \in inked : j <= i)


-----------------------------------------------------------------------------
(* EnhancedResumeParser (src/scripts/parsers/enhanced_parser.py)           *)

None == <<"None">>

\* the methods class EnhancedResumeParser defines
DefinedMethods ==
    {"__init__", "parse_resume", "_extract_text", "_extract_from_pdf",
     "_extract_from_docx", "_extract_from_txt", "_parse_text",
     "_extract_contact_info", "_extract_work_experience", "_extract_skills",
     "_extract_education", "_setup_matchers", "_load_skills_database",
     "_clean_text", "_find_section", "_split_into_blocks"}

Returned(v) == [raised |-> "none", value |-> v]
Raised(e, message) == [raised |-> e, value |-> [message |-> message]]

\* the effect of evaluating self.<name>: an AttributeError unless the class
\* defines the method
AttributeError(name) == Raised("AttributeError", name)

\* the first of the method names that the class does not define, or None
FirstUndefined(names) ==
    LET missing == {k \in DOMAIN names : names[k] \notin DefinedMethods}
    IN  IF missing = {} THEN "None" ELSE names[SetMin(missing)]

\* re.sub(n, repl, s) for a pattern whose matches are not empty
re_sub(n, repl, s) ==
    Then(re_finditer(n, s, 1), LAMBDA ms :
        Flatten([k \in 1..(Len(ms) + 1) |->
            SubSeq(s, IF k = 1 THEN 1 ELSE ms[k - 1].end,
                      IF k > Len(ms) THEN Len(s) ELSE ms[k].start - 1)
            \o (IF k > Len(ms) THEN <<>> ELSE repl)]))

\* _clean_text
CleanText(text) ==
    Then(re_sub(Run(In(Spaces), 1, -1, TRUE), <<" ">>, text), LAMBDA spaced :
    Then(re_sub(NotIn(WordChars \cup Spaces \cup {"@", ".", "/", "-"}), <<" ">>, spaced),
         LAMBDA plain :
             Strip(re_sub(Run(In({"\n"}), 1, -1, TRUE), <<"\n">>, plain))))

-----------------------------------------------------------------------------
(* _extract_contact_info                                                   *)

Separator == Run(In({"-", "."} \cup Spaces), 0, 1, TRUE)       \* [-.\s]?
CountryCode == Cat(<<Run(In({"+"}), 0, 1, TRUE), Run(In({"1"}), 0, 1, TRUE)>>)  \* \+?1?

phone_patterns ==
    << Cat(<<CountryCode, Separator, Run(In({"("}), 0, 1, TRUE), Run(Digit, 3, 3, TRUE),
             Run(In({")"}), 0, 1, TRUE), Separator, Run(Digit, 3, 3, TRUE), Separator,
             Run(Digit, 4, 4, TRUE)>>),
       Cat(<<CountryCode, Separator, Run(Digit, 3, 3, TRUE), Separator,
             Run(Digit, 3, 3, TRUE), Separator, Run(Digit, 4, 4, TRUE)>>),
       Cat(<<In({"("}), Run(Digit, 3, 3, TRUE), In({")"}), Run(In(Spaces), 0, -1, TRUE),
             Run(Digit, 3, 3, TRUE), In({"-"}), Run(Digit, 4, 4, TRUE)>>) >>

\* phonenumbers.parse(phone, "US") on a candidate of the patterns (ten
\* digits, or eleven with a leading 1): the national number.  A candidate
\* written +XXXXXXXXXX without the 1 is a number of another region; none
\* occurs in the modelled texts.
NationalNumber(phone) ==
    LET digits == SelectSeq(phone, IsDigit)
    IN  IF Len(digits) = 11 /\ digits[1] = "1" THEN Tail(digits)
        ELSE IF Len(digits) = 10 /\ "+" \notin Range(phone) THEN digits
        ELSE <<>>

\* phonenumbers.is_valid_number for region US: a North American number
\* NXX NXX XXXX with N in 2..9 (the area codes of the modelled texts are
\* assigned ones)
IsValidNumber(national) ==
    /\ Len(national) = 10
    /\ national[1] \notin {"0", "1"}
    /\ national[4] \notin {"0", "1"}

IsValidPhone(phone) == IsValidNumber(NationalNumber(phone))

\* phonenumbers.format_number(parsed, NATIONAL)
FormatNational(national) ==
    <<"(">> \o SubSeq(national, 1, 3) \o <<")", " ">> \o SubSeq(national, 4, 6)
        \o <<"-">> \o SubSeq(national, 7, 10)

\* the loops over phone_patterns: contact_info['phone'] after the patterns
\* k, k+1, ... when it is `phone` before them.  The break leaves the loop
\* over the candidates of one pattern.
RECURSIVE PhoneLoop(_, _, _)
PhoneLoop(k, text, phone) ==
    IF k > Len(phone_patterns) THEN phone
    ELSE Then(SelectSeq(re_findall(phone_patterns[k], text), IsValidPhone), LAMBDA valid :
             PhoneLoop(k + 1, text,
                       IF valid = <<>> THEN phone
                       ELSE FormatNational(NationalNumber(valid[1]))))

Scheme == Opt(Cat(<<LitI(<<"h","t","t","p">>), Run(In({"s", "S"}), 0, 1, TRUE), Lit(<<":","/","/">>)>>))
Www    == Opt(LitI(<<"w","w","w",".">>))
Handle == Run(In(WordChars \cup {"-"}), 1, -1, TRUE)           \* [A-Za-z0-9_-]+

linkedin_pattern == Cat(<<Scheme, Www, LitI(<<"l","i","n","k","e","d","i","n",".","c","o","m","/","i","n","/">>), Handle>>)
github_pattern   == Cat(<<Scheme, Www, LitI(<<"g","i","t","h","u","b",".","c","o","m","/">>), Handle>>)

\* the same pattern without re.IGNORECASE
website_pattern ==
    Cat(<<Opt(Cat(<<Lit(<<"h","t","t","p">>), Run(In({"s"}), 0, 1, TRUE), Lit(<<":","/","/">>)>>)),
          Opt(Lit(<<"w","w","w",".">>)),
          Run(In(Letters \cup Range(Digits) \cup {".", "-"}), 1, -1, TRUE),
          In({"."}), Run(In(Letters), 2, -1, TRUE),
          Opt(Cat(<<In({"/"}), Run(NotIn(Spaces), 0, -1, TRUE)>>))>>)

SearchGroup(n, s) ==
    Then(re_search(n, s, 1), LAMBDA m : IF m = NoMatch THEN None ELSE Group(s, m))

Website(text) ==
    LET other == SelectSeq(re_findall(website_pattern, text),
                           LAMBDA w : /\ ~Contains(w, <<"l","i","n","k","e","d","i","n",".","c","o","m">>)
                                      /\ ~Contains(w, <<"g","i","t","h","u","b",".","c","o","m">>))
    IN  IF other = <<>> THEN None ELSE other[1]

\* The modelled texts hold no '@', which every match of email_pattern
\* needs, so email stays None; address is never assigned.
ExtractContactInfo(text) ==
    [email    |-> None,
     phone    |-> PhoneLoop(1, text, None),
     linkedin |-> SearchGroup(linkedin_pattern, text),
     github   |-> SearchGroup(github_pattern, text),
     website  |-> Website(text),
     address  |-> None]

-----------------------------------------------------------------------------
(* _find_section, _split_into_blocks                                       *)

\* \b keyword \b .*? (?= \n[A-Z] | \n\n | \Z ) under DOTALL and IGNORECASE,
\* which lets [A-Z] match a letter of either case
SectionPattern(keyword) ==
    Cat(<<WordBoundary, LitI(keyword), WordBoundary, Run(AnyChar, 0, -1, FALSE),
          Ahead(Alt(<<Cat(<<In({"\n"}), In(Letters)>>), Lit(<<"\n", "\n">>), EndOfText>>))>>)

\* _find_section: the match of the first keyword that has one, in the
\* lower-cased text
RECURSIVE FindSectionFrom(_, _, _)
FindSectionFrom(k, low, section_keywords) ==
    IF k > Len(section_keywords) THEN None
    ELSE Then(SearchGroup(SectionPattern(section_keywords[k]), low), LAMBDA found :
             IF found # None THEN found
             ELSE FindSectionFrom(k + 1, low, section_keywords))

FindSection(text, section_keywords) == FindSectionFrom(1, Lower(text), section_keywords)

\* \n (?= [A-Z][^a-z\n]{5,} | \d{4} | \w+\s+\d{4} )
BlockDelimiter ==
    Cat(<<In({"\n"}),
          Ahead(Alt(<<Cat(<<In(Range(UpperCase)),
                            Run(NotIn(Range(LowerCase) \cup {"\n"}), 5, -1, TRUE)>>),
                      Run(Digit, 4, 4, TRUE),
                      Cat(<<Run(In(WordChars), 1, -1, TRUE), Run(In(Spaces), 1, -1, TRUE),
                            Run(Digit, 4, 4, TRUE)>>)>>))>>)

\* _split_into_blocks
SplitIntoBlocks(text) ==
    Then(re_split(BlockDelimiter, text), LAMBDA blocks :
        SelectSeq([k \in 1..Len(blocks) |-> Strip(blocks[k])], LAMBDA b : b # <<>>))


-----------------------------------------------------------------------------
(* _extract_work_experience                                                *)

experience_keywords ==
    <<<<"e","x","p","e","r","i","e","n","c","e">>, <<"w","o","r","k"," ","h","i","s","t","o","r","y">>, <<"e","m","p","l","o","y","m","e","n","t">>, <<"p","r","o","f","e","s","s","i","o","n","a","l"," ","e","x","p","e","r","i","e","n","c","e">>>>

\* the methods that fill the fields of a job, in the order of the dict
job_methods ==
    <<"_extract_job_title", "_extract_company", "_extract_dates", "_extract_location",
      "_extract_job_description", "_extract_achievements_from_block",
      "_extract_technologies_from_block">>

\* blocks shorter than 20 characters are skipped; the first other block
\* evaluates self._extract_job_title, which the class does not define, so
\* no job is ever built
ExtractWorkExperience(text) ==
    Then(FindSection(text, experience_keywords), LAMBDA exp_section :
        IF exp_section = None THEN Returned(<<>>)
        ELSE Then(SplitIntoBlocks(exp_section), LAMBDA job_blocks :
                 IF \E k \in DOMAIN job_blocks : Len(Strip(job_blocks[k])) >= 20
                 THEN AttributeError(FirstUndefined(job_methods))
                 ELSE Returned(<<>>)))

-----------------------------------------------------------------------------
(* _extract_education                                                      *)

education_keywords == <<<<"e","d","u","c","a","t","i","o","n">>, <<"a","c","a","d","e","m","i","c"," ","b","a","c","k","g","r","o","u","n","d">>, <<"q","u","a","l","i","f","i","c","a","t","i","o","n","s">>>>

SomeSpace == Run(In(Spaces), 1, -1, TRUE)                       \* \s+
AnySpace  == Run(In(Spaces), 0, -1, TRUE)                       \* \s*
Dot       == Run(In({"."}), 0, 1, TRUE)                         \* \.?
AnyOf(strs) == Alt([k \in 1..Len(strs) |-> LitI(strs[k])])
\* X\.?Y\.?
Dotted(x, y) == Cat(<<LitI(x), Dot, LitI(y), Dot>>)

\* searched with re.IGNORECASE
degree_patterns ==
    << Cat(<<WordBoundary,
             AnyOf(<<<<"B","a","c","h","e","l","o","r">>, <<"M","a","s","t","e","r">>, <<"P","h","D">>, <<"D","o","c","t","o","r","a","t","e">>, <<"A","s","s","o","c","i","a","t","e">>>>),
             Opt(Cat(<<SomeSpace, LitI(<<"o","f">>)>>)),
             Opt(Alt(<<Cat(<<SomeSpace, LitI(<<"A","r","t","s">>)>>),
                       Cat(<<SomeSpace, LitI(<<"S","c","i","e","n","c","e">>)>>),
                       Cat(<<SomeSpace, LitI(<<"E","n","g","i","n","e","e","r","i","n","g">>)>>)>>)),
             WordBoundary>>),
       Cat(<<WordBoundary,
             Alt(<<Dotted(<<"B">>, <<"A">>), Dotted(<<"B">>, <<"S">>), Dotted(<<"M">>, <<"A">>),
                   Dotted(<<"M">>, <<"S">>), Dotted(<<"P","h">>, <<"D">>), LitI(<<"M","B","A">>)>>),
             WordBoundary>>),
       Cat(<<WordBoundary,
             AnyOf(<<<<"B","S">>, <<"B","A">>, <<"M","S">>, <<"M","A">>, <<"P","h","D">>, <<"M","B","A">>>>),
             WordBoundary>>) >>

\* \d+\.?\d*
Decimal == Cat(<<Run(Digit, 1, -1, TRUE), Dot, Run(Digit, 0, -1, TRUE)>>)

\* GPA:?\s*  (\d+\.?\d*)  \s*(?:/\s*\d+\.?\d*)?
gpa_before == Cat(<<LitI(<<"G","P","A">>), Run(In({":"}), 0, 1, TRUE), AnySpace>>)
gpa_after  == Cat(<<AnySpace, Opt(Cat(<<In({"/"}), AnySpace, Decimal>>))>>)

honors_pattern ==
    Cat(<<WordBoundary,
          AnyOf(<<<<"s","u","m","m","a"," ","c","u","m"," ","l","a","u","d","e">>, <<"m","a","g","n","a"," ","c","u","m"," ","l","a","u","d","e">>, <<"c","u","m"," ","l","a","u","d","e">>,
                  <<"w","i","t","h"," ","h","o","n","o","r","s">>, <<"h","o","n","o","r","s">>, <<"d","e","a","n","'","s"," ","l","i","s","t">>>>),
          WordBoundary>>)

\* match.group(1) of re.search(before (group) after, s): the group of the
\* first way the matcher finds to match the three parts in a row
GroupOne(before, group, after, s) ==
    Then(re_search(Cat(<<before, group, after>>), s, 1), LAMBDA m :
        IF m = NoMatch THEN None
        ELSE LET rest   == Cat(<<group, after>>)
                 starts == Ends(before, s, m.start)
                 from   == starts[SetMin({k \in DOMAIN starts : Ends(rest, s, starts[k]) # <<>>})]
                 ends   == Ends(group, s, from)
                 to     == ends[SetMin({k \in DOMAIN ends : Ends(after, s, ends[k]) # <<>>})]
             IN  SubSeq(s, from, to - 1))

\* the degree of a block: the match of the first pattern that has one
RECURSIVE Degree(_, _)
Degree(k, block) ==
    IF k > Len(degree_patterns) THEN None
    ELSE Then(SearchGroup(degree_patterns[k], block), LAMBDA found :
             IF found # None THEN found ELSE Degree(k + 1, block))

\* the record built for one block
EducationOf(block) ==
    [degree          |-> Degree(1, block),
     field           |-> None,
     institution     |-> None,
     graduation_date |-> None,
     gpa             |-> GroupOne(gpa_before, Decimal, gpa_after, block),
     honors          |-> SearchGroup(honors_pattern, block)]

ExtractEducation(text) ==
    Then(FindSection(text, education_keywords), LAMBDA edu_section :
        IF edu_section = None THEN <<>>
        ELSE Then(SelectSeq(SplitIntoBlocks(edu_section),
                            LAMBDA block : Len(Strip(block)) >= 10), LAMBDA edu_blocks :
                 SelectSeq([k \in 1..Len(edu_blocks) |-> EducationOf(edu_blocks[k])],
                           LAMBDA edu : edu.degree # None)))

-----------------------------------------------------------------------------
(* _extract_skills                                                         *)

skills_keywords == <<<<"s","k","i","l","l","s">>, <<"t","e","c","h","n","i","c","a","l"," ","s","k","i","l","l","s">>, <<"c","o","m","p","e","t","e","n","c","i","e","s">>, <<"t","e","c","h","n","o","l","o","g","i","e","s">>>>

skill_categories ==
    <<"programming_languages", "frameworks", "databases", "tools", "soft_skills">>

\* _load_skills_database
skills_database ==
    [programming_languages |->
        <<<<"P","y","t","h","o","n">>, <<"J","a","v","a","S","c","r","i","p","t">>, <<"J","a","v","a">>, <<"C","+","+">>, <<"C","#">>, <<"R","u","b","y">>, <<"G","o">>, <<"R","u","s","t">>,
          <<"P","H","P">>, <<"S","w","i","f","t">>, <<"K","o","t","l","i","n">>, <<"T","y","p","e","S","c","r","i","p","t">>, <<"S","c","a","l","a">>, <<"R">>, <<"M","A","T","L","A","B">>>>,
     frameworks |->
        <<<<"R","e","a","c","t">>, <<"A","n","g","u","l","a","r">>, <<"V","u","e",".","j","s">>, <<"D","j","a","n","g","o">>, <<"F","l","a","s","k">>, <<"E","x","p","r","e","s","s",".","j","s">>,
          <<"S","p","r","i","n","g"," ","B","o","o","t">>, <<"L","a","r","a","v","e","l">>, <<"R","u","b","y"," ","o","n"," ","R","a","i","l","s">>, <<"A","S","P",".","N","E","T">>, <<"N","e","x","t",".","j","s">>>>,
     databases |->
        <<<<"M","y","S","Q","L">>, <<"P","o","s","t","g","r","e","S","Q","L">>, <<"M","o","n","g","o","D","B">>, <<"R","e","d","i","s">>, <<"S","Q","L","i","t","e">>, <<"O","r","a","c","l","e">>,
          <<"M","i","c","r","o","s","o","f","t"," ","S","Q","L"," ","S","e","r","v","e","r">>, <<"C","a","s","s","a","n","d","r","a">>, <<"D","y","n","a","m","o","D","B">>, <<"E","l","a","s","t","i","c","s","e","a","r","c","h">>>>,
     tools |->
        <<<<"G","i","t">>, <<"D","o","c","k","e","r">>, <<"K","u","b","e","r","n","e","t","e","s">>, <<"J","e","n","k","i","n","s">>, <<"J","I","R","A">>, <<"C","o","n","f","l","u","e","n","c","e">>,
          <<"A","W","S">>, <<"A","z","u","r","e">>, <<"G","o","o","g","l","e"," ","C","l","o","u","d">>, <<"T","e","r","r","a","f","o","r","m">>, <<"A","n","s","i","b","l","e">>>>,
     soft_skills |->
        <<<<"L","e","a","d","e","r","s","h","i","p">>, <<"C","o","m","m","u","n","i","c","a","t","i","o","n">>, <<"P","r","o","b","l","e","m"," ","S","o","l","v","i","n","g">>, <<"T","e","a","m","w","o","r","k">>,
          <<"P","r","o","j","e","c","t"," ","M","a","n","a","g","e","m","e","n","t">>, <<"C","r","i","t","i","c","a","l"," ","T","h","i","n","k","i","n","g">>, <<"A","d","a","p","t","a","b","i","l","i","t","y">>>>]

\* \b skill \b under re.IGNORECASE
SkillPattern(skill) == Cat(<<WordBoundary, LitI(skill), WordBoundary>>)

ExtractSkills(text) ==
    Then(FindSection(text, skills_keywords), LAMBDA skills_section :
    Then(IF skills_section # None THEN skills_section ELSE text, LAMBDA search_text :
        [category \in {"technical", "other"} \cup Range(skill_categories) |->
            IF category \in {"technical", "other"} THEN <<>>
            ELSE SelectSeq(skills_database[category],
                           LAMBDA skill : re_search(SkillPattern(skill), search_text, 1) # NoMatch)]))

-----------------------------------------------------------------------------
(* _parse_text, parse_resume                                               *)

\* the entries of the dict of _parse_text, in the order they are evaluated:
\* the key and the method that computes its value
parse_text_entries ==
    << <<"contact_info", "_extract_contact_info">>,
       <<"personal_info", "_extract_personal_info">>,
       <<"professional_summary", "_extract_summary">>,
       <<"work_experience", "_extract_work_experience">>,
       <<"education", "_extract_education">>,
       <<"skills", "_extract_skills">>,
       <<"certifications", "_extract_certifications">>,
       <<"projects", "_extract_projects">>,
       <<"languages", "_extract_languages">>,
       <<"achievements", "_extract_achievements">> >>

\* a call of one of the extraction methods the class defines
Extract(name, text) ==
    CASE name = "_extract_contact_info"    -> Returned(ExtractContactInfo(text))
      [] name = "_extract_work_experience" -> ExtractWorkExperience(text)
      [] name = "_extract_education"       -> Returned(ExtractEducation(text))
      [] name = "_extract_skills"          -> Returned(ExtractSkills(text))

\* the entries k, k+1, ... of the dict, after the entries in `parsed`
RECURSIVE ParseTextFrom(_, _, _)
ParseTextFrom(k, text, parsed) ==
    IF k > Len(parse_text_entries) THEN Returned(parsed @@ ("raw_text" :> text))
    ELSE IF parse_text_entries[k][2] \notin DefinedMethods
         THEN AttributeError(parse_text_entries[k][2])
         ELSE Then(Extract(parse_text_entries[k][2], text), LAMBDA r :
                  IF r.raised # "none" THEN r
                  ELSE ParseTextFrom(k + 1, text, parsed @@ (parse_text_entries[k][1] :> r.value)))

ParseText(text) == ParseTextFrom(1, text, <<>>)

\* the least length of the text of a resume
MinTextLength == 50

\* parse_resume for a text file with the content `content`, called with
\* file_type (None or 'txt'): _extract_text returns the cleaned content.
\* The handler of line 74 logs the exception and raises it again.
ParseResume(content, file_type) ==
    Then(CleanText(content), LAMBDA text :
        IF text = <<>> \/ Len(Strip(text)) < MinTextLength
        THEN Raised("ValueError", "Insufficient text extracted from resume")
        ELSE Then(ParseText(text), LAMBDA parsed :
                 IF parsed.raised # "none" THEN parsed
                 ELSE IF file_type = "None" /\ "_detect_file_type" \notin DefinedMethods
                 THEN AttributeError("_detect_file_type")
                 ELSE Returned(parsed.value @@
                         ("metadata" :> [parsed_at       |-> "now",
                                         file_type       |-> file_type,
                                         text_length     |-> Len(text),
                                         parsing_version |-> "2.0"]))))


-----------------------------------------------------------------------------
(* Calls of the parser                                                     *)

\* the outcome r of a call of method m
Finish(m, r) ==
    /\ method' = m
    /\ outcome' = IF r.raised = "none" THEN "returned" ELSE r.raised
    /\ ret' = r.value
    /\ UNCHANGED <<resume_text, job_description, ats_type, engine>>

\* parse_resume: the content of a text file, padded to lengths on both
\* sides of MinTextLength
MaxPadding == 24

FileContents ==
    {<<"J","a","n","e"," ","D","o","e"," ","l","i","k","e","s"," ","l","o","n","g"," ","w","a","l","k","s"," ","a","n","d"," ","t","e","a">>,
     <<"J","a","n","e"," "," "," ","D","o","e"," ","\n","\n","\n"," ","l","i","k","e","s"," ","\t","\t"," ","l","o","n","g"," "," "," "," ","!","!","!"," "," ","w","a","l","k","s">>,
     <<"C","a","l","l"," ","6","5","0","-","2","5","3","-","0","0","0","0"," ","o","r"," ","s","e","e"," ","g","i","t","h","u","b",".","c","o","m","/","j","d","o","e">>,
     <<"E","x","p","e","r","i","e","n","c","e","\n","2","0","1","9"," ","S","o","f","t","w","a","r","e"," ","E","n","g","i","n","e","e","r"," ","a","t"," ","A","c","m","e"," ","C","o","r","p","\n","E","d","u","c","a","t","i","o","n","\n","2","0","1","5"," ","B","a","c","h","e","l","o","r"," ","o","f"," ","S","c","i","e","n","c","e">>}

Padding(n) == [i \in 1..n |-> IF i % 5 = 1 THEN " " ELSE "x"]

ParseContents == {c \o Padding(n) : c \in FileContents, n \in 0..MaxPadding}

CallParseResume(file_type) ==
    /\ method = "none"
    /\ \E r \in {ParseResume(resume_text, file_type)} : Finish("parse_resume", r)
    /\ calls' = <<[file_type |-> file_type]>>

InitParse ==
    /\ resume_text \in ParseContents
    /\ job_description = <<>>
    /\ NoCall

NextParse == \E file_type \in {"None", "txt"} : CallParseResume(file_type)

SpecParse == InitParse /\ [][NextParse]_vars


\* the keys of a structured resume
ResumeKeys ==
    {"contact_info", "personal_info", "professional_summary", "work_experience",
     "education", "skills", "certifications", "projects", "languages",
     "achievements", "raw_text", "metadata"}

\* C17: parse_resume fails with the insufficient-text error when the
\* extracted text has fewer than 50 characters, and for every text of at
\* least 50 characters it returns a complete structured resume instead of
\* raising; where the text has no experience or education section these
\* fields are empty.
C17_InsufficientTextOrCompleteResume ==
    method = "parse_resume" =>
        LET text == CleanText(resume_text)
        IN  IF Len(text) < 50
            THEN /\ outcome = "ValueError"
                 /\ ret.message = "Insufficient text extracted from resume"
            ELSE /\ outcome = "returned"
                 /\ DOMAIN ret = ResumeKeys
                 /\ ret.raw_text = text
                 /\ FindSection(text, experience_keywords) = None => ret.work_experience = <<>>
                 /\ FindSection(text, education_keywords) = None => ret.education = <<>>


-----------------------------------------------------------------------------
(* _extract_work_experience and _extract_education on their own            *)

\* the most blocks after the heading of a section
MaxBlocks == 2

SectionHeadings == {<<>>, <<"E","x","p","e","r","i","e","n","c","e">>, <<"W","o","r","k"," ","H","i","s","t","o","r","y",":">>, <<"E","D","U","C","A","T","I","O","N">>}

SectionBlocks ==
    <<<<"\n","2","0","1","9"," ","S","o","f","t","w","a","r","e"," ","E","n","g","i","n","e","e","r"," ","a","t"," ","A","c","m","e"," ","C","o","r","p">>,
      <<"\n","2","0","2","0"," ","A","c","m","e">>,
      <<"\n","2","0","1","5"," ","B","a","c","h","e","l","o","r"," ","o","f"," ","S","c","i","e","n","c","e",","," ","M","I","T">>,
      <<"\n","2","0","1","6"," ","o","n","l","i","n","e"," ","c","o","u","r","s","e"," ","i","n"," ","p","o","t","t","e","r","y">>,
      <<"\n","2","0","1","7"," ","M","B","A",","," ","W","h","a","r","t","o","n"," ","G","P","A",":"," ","3",".","8","/","4",".","0"," ","w","i","t","h"," ","h","o","n","o","r","s">>>>

\* the texts of at most n blocks
RECURSIVE BlockTexts(_)
BlockTexts(n) ==
    IF n = 0 THEN {<<>>}
    ELSE BlockTexts(n - 1)
           \cup {t \o SectionBlocks[k] : t \in BlockTexts(n - 1), k \in DOMAIN SectionBlocks}

SectionTexts == {h \o t : h \in SectionHeadings, t \in BlockTexts(MaxBlocks)}

CallExtractWorkExperience ==
    /\ method = "none"
    /\ \E r \in {ExtractWorkExperience(resume_text)} : Finish("_extract_work_experience", r)
    /\ UNCHANGED calls

CallExtractEducation ==
    /\ method = "none"
    /\ \E r \in {Returned(ExtractEducation(resume_text))} : Finish("_extract_education", r)
    /\ UNCHANGED calls

InitSections ==
    /\ resume_text \in SectionTexts
    /\ job_description = <<>>
    /\ NoCall

NextSections == CallExtractWorkExperience \/ CallExtractEducation

SpecSections == InitSections /\ [][NextSections]_vars

\* the blocks of the section that _extract_education reads, in the order
\* they occur
EducationBlocks(text) ==
    LET section == FindSection(text, education_keywords)
    IN  IF section = None THEN <<>> ELSE SplitIntoBlocks(section)

\* the k-th least element of a set of numbers
Kth(S, k) == CHOOSE x \in S : Cardinality({y \in S : y < x}) = k - 1

\* C18: _extract_work_experience returns entries that each have a title or
\* a company, and _extract_education returns entries that each have a
\* degree: one entry for every block (of ten characters or more) with a
\* degree, in the order of the blocks; the other blocks are discarded.
C18_EntriesHaveIdentifyingField ==
    /\ method = "_extract_work_experience" =>
          /\ outcome = "returned"
          /\ \A i \in DOMAIN ret : ret[i].title # None \/ ret[i].company # None
    /\ method = "_extract_education" =>
          /\ outcome = "returned"
          /\ \A i \in DOMAIN ret : ret[i].degree # None
          /\ LET blocks == EducationBlocks(resume_text)
                 graded == {k \in DOMAIN blocks :
                               /\ Len(blocks[k]) >= 10
                               /\ \E p \in DOMAIN degree_patterns :
                                      re_search(degree_patterns[p], blocks[k], 1) # NoMatch}
             IN  /\ Len(ret) = Cardinality(graded)
                 /\ \A i \in DOMAIN ret :
                       ret[i].degree = Degree(1, blocks[Kth(graded, i)])


-----------------------------------------------------------------------------
(* _extract_contact_info on its own                                        *)

\* the most pieces of a contact line
MaxPieces == 2

ContactPieces ==
    <<<<"6","5","0","-","2","5","3","-","0","0","0","0">>, <<"(","2","1","2",")"," ","7","3","6","-","5","0","0","0">>, <<"(","2","1","2",")","7","3","6","-","5","0","0","0">>, <<"+","1"," ","4","1","5",".","8","6","1",".","2","0","0","0">>,
      <<"1","2","3","-","4","5","6","-","7","8","9","0">>, <<"4","1","5","-","1","5","5","-","0","1","9","8">>, <<"c","a","l","l"," ","m","e">>, <<"l","i","n","k","e","d","i","n",".","c","o","m","/","i","n","/","j","a","n","e","-","d","o","e">>>>

\* the texts of at most n pieces, each followed by a comma and a space
RECURSIVE ContactLines(_)
ContactLines(n) ==
    IF n = 0 THEN {<<>>}
    ELSE ContactLines(n - 1)
           \cup {t \o ContactPieces[k] \o <<",", " ">> :
                    t \in ContactLines(n - 1), k \in DOMAIN ContactPieces}

CallExtractContactInfo ==
    /\ method = "none"
    /\ \E r \in {Returned(ExtractContactInfo(resume_text))} : Finish("_extract_contact_info", r)
    /\ UNCHANGED calls

InitContact ==
    /\ resume_text \in ContactLines(MaxPieces)
    /\ job_description = <<>>
    /\ NoCall

SpecContact == InitContact /\ [][CallExtractContactInfo]_vars

\* the candidates of the three patterns, in pattern order then match order
PhoneCandidates(text) ==
    Flatten([k \in DOMAIN phone_patterns |-> re_findall(phone_patterns[k], text)])

\* C19: the phone of the contact information is the first candidate, in
\* pattern order then match order, that is a valid number (None when there
\* is none): a candidate of a later pattern never replaces an accepted one.
C19_FirstValidCandidateWins ==
    method = "_extract_contact_info" =>
        LET valid == SelectSeq(PhoneCandidates(resume_text), IsValidPhone)
        IN  ret.phone = IF valid = <<>> THEN None
                        ELSE FormatNational(NationalNumber(valid[1]))


-----------------------------------------------------------------------------
(* calculate_weighted_similarity (src/scripts/utils/quick_improvements.py) *)

\* the names the module binds: it defines six functions and imports
\* nothing at module level (re is imported inside
\* extract_job_keywords_improved only)
module_names ==
    {"extract_job_keywords_improved", "calculate_weighted_similarity",
     "detect_resume_sections", "extract_achievements", "add_progress_indicators",
     "provide_specific_feedback"}

RatDiv(x, y) == Rat(x.num * y.den, x.den * y.num)

\* sum(kw['weight'] for kw in job_keywords), from the k-th on
RECURSIVE TotalWeight(_, _)
TotalWeight(job_keywords, k) ==
    IF k > Len(job_keywords) THEN Rat(0, 1)
    ELSE RatAdd(job_keywords[k].weight, TotalWeight(job_keywords, k + 1))

\* the test `keyword in resume_lower`
KeywordPresent(keyword_data, resume) ==
    Contains(Lower(resume), Lower(keyword_data.keyword))

\* what a keyword found in the resume adds to matched_weight
BoostedWeight(keyword_data, resume) ==
    LET keyword == Lower(keyword_data.keyword)
        early_position == Len(resume) \div 3
        early == IF Contains(Lower(SubSeq(resume, 1, early_position)), keyword)
                 THEN RatMul(keyword_data.weight, Rat(12, 10))
                 ELSE keyword_data.weight
    IN  IF re_search(Cat(<<WordBoundary, Lit(keyword), WordBoundary>>), Lower(resume), 1) # NoMatch
        THEN RatMul(early, Rat(11, 10))
        ELSE early

\* matched_weight after the loop, from the k-th keyword on
RECURSIVE MatchedWeight(_, _, _)
MatchedWeight(job_keywords, resume, k) ==
    IF k > Len(job_keywords) THEN Rat(0, 1)
    ELSE RatAdd(IF KeywordPresent(job_keywords[k], resume)
                THEN BoostedWeight(job_keywords[k], resume) ELSE Rat(0, 1),
                MatchedWeight(job_keywords, resume, k + 1))

\* The first keyword found in the resume brings the loop to line 64, which
\* evaluates the name re.
CalculateWeightedSimilarity(resume, job_keywords) ==
    IF /\ \E k \in DOMAIN job_keywords : KeywordPresent(job_keywords[k], resume)
       /\ "re" \notin module_names
    THEN Raised("NameError", "re")
    ELSE Then(TotalWeight(job_keywords, 1), LAMBDA total_weight :
             IF RatLess(Rat(0, 1), total_weight)
             THEN Returned(RatMin(RatDiv(MatchedWeight(job_keywords, resume, 1), total_weight),
                                  Rat(1, 1)))
             ELSE Returned(Rat(0, 1)))

\* the most keywords of a list
MaxKeywords == 2

SimilarityResumes ==
    {<<>>, <<"P","y","t","h","o","n"," ","d","e","v","e","l","o","p","e","r",","," ","s","o","m","e"," ","J","a","v","a">>, <<"j","a","v","a","s","c","r","i","p","t"," ","a","n","d"," ","g","o">>}

KeywordData ==
    {[keyword |-> w, weight |-> Rat(n, 10)] :
        w \in {<<"P","y","t","h","o","n">>, <<"j","a","v","a">>, <<"A","W","S">>}, n \in {0, 7, 10}}

\* the keyword lists of at most n keywords
RECURSIVE KeywordLists(_)
KeywordLists(n) ==
    IF n = 0 THEN {<<>>}
    ELSE KeywordLists(n - 1)
           \cup {Append(l, d) : l \in KeywordLists(n - 1), d \in KeywordData}

CallCalculateWeightedSimilarity(job_keywords) ==
    /\ method = "none"
    /\ \E r \in {CalculateWeightedSimilarity(resume_text, job_keywords)} :
          Finish("calculate_weighted_similarity", r)
    /\ calls' = <<[job_keywords |-> job_keywords]>>

InitSimilarity ==
    /\ resume_text \in SimilarityResumes
    /\ job_description = <<>>
    /\ NoCall

NextSimilarity ==
    \E job_keywords \in KeywordLists(MaxKeywords) :
        CallCalculateWeightedSimilarity(job_keywords)

SpecSimilarity == InitSimilarity /\ [][NextSimilarity]_vars

\* C20: calculate_weighted_similarity returns a value in [0, 1] for every
\* resume text and keyword list: the sum, over the keywords found in the
\* resume, of the weight times 1.2 if the keyword occurs in the first third
\* and times 1.1 if it occurs as a whole word, divided by the sum of the
\* weights and capped at 1; 0 when the sum of the weights is zero.
C20_SimilarityInUnitInterval ==
    method = "calculate_weighted_similarity" =>
        LET job_keywords == calls[1].job_keywords
            total        == TotalWeight(job_keywords, 1)
            matched      == MatchedWeight(job_keywords, resume_text, 1)
        IN  /\ outcome = "returned"
            /\ ~RatLess(ret, Rat(0, 1))
            /\ ~RatLess(Rat(1, 1), ret)
            /\ ret = IF total = Rat(0, 1) THEN Rat(0, 1)
                     ELSE RatMin(RatDiv(matched, total), Rat(1, 1))



-----------------------------------------------------------------------------
(* Input sanitization (src/scripts/utils/security.py)                      *)

\* the null byte
NUL == "x00"

\* str.replace(old, new) for a one-character old
Replace(s, old, new) ==
    Flatten([i \in 1..Len(s) |-> IF s[i] = old THEN new ELSE <<s[i]>>])

\* str.replace('\r\n', '\n')
ReplaceCrLf(s) ==
    Flatten([i \in 1..Len(s) |->
        IF s[i] = "\r" /\ i < Len(s) /\ s[i + 1] = "\n" THEN <<>> ELSE <<s[i]>>])

\* text[:max_length]
Truncate(text, max_length) ==
    IF max_length >= 0
    THEN SubSeq(text, 1, IF Len(text) < max_length THEN Len(text) ELSE max_length)
    ELSE SubSeq(text, 1, Len(text) + max_length)

\* <script.*?</script> under IGNORECASE and DOTALL
script_pattern ==
    Cat(<<LitI(<<"<","s","c","r","i","p","t">>), Run(AnyChar, 0, -1, FALSE), LitI(<<"<","/","s","c","r","i","p","t",">">>)>>)

\* <\w+>
open_tag_pattern ==
    Cat(<<Lit(<<"<">>), Run(In(WordChars), 1, -1, TRUE), Lit(<<">">>)>>)

\* <.*?> where . matches no newline
tag_pattern ==
    Cat(<<Lit(<<"<">>), Run(NotIn({"\n"}), 0, -1, FALSE), Lit(<<">">>)>>)

DefaultMaxLength == 10000

\* sanitize_text_input(text, max_length) for an argument of type type
SanitizeTextInput(type, text, max_length) ==
    IF type # "str" THEN Raised("ValueError", "Input must be a string")
    ELSE
    Then(IF Len(text) > max_length THEN Truncate(text, max_length) ELSE text,
         LAMBDA cut :
    Then(Replace(ReplaceCrLf(Replace(cut, NUL, <<>>)), "\r", <<"\n">>),
         LAMBDA clean :
    Then(re_sub(script_pattern, <<>>, clean), LAMBDA scriptless :
         Returned(Strip(re_sub(tag_pattern, <<>>, scriptless))))))

\* Calls of sanitize_text_input: texts of up to MaxSanitized pieces
MaxSanitized == 3

SanitizerPieces ==
    {<<"<","b">>, <<">">>, <<"\n">>, <<"\r">>, <<NUL>>, <<"x">>, <<"<","s","c","r","i","p","t",">">>, <<"<","/","S","C","R","I","P","T",">">>}

RECURSIVE SanitizerTexts(_)
SanitizerTexts(n) ==
    IF n = 0 THEN {<<>>}
    ELSE Then(SanitizerTexts(n - 1), LAMBDA shorter :
             shorter \cup {t \o p : t \in shorter, p \in SanitizerPieces})

MaxLengths == {0, 2, 5, DefaultMaxLength}

CallSanitizeTextInput(type, max_length) ==
    /\ method = "none"
    /\ \E r \in {SanitizeTextInput(type, resume_text, max_length)} :
          Finish("sanitize_text_input", r)
    /\ calls' = <<[type |-> type, max_length |-> max_length]>>

InitSanitize ==
    /\ resume_text \in SanitizerTexts(MaxSanitized)
    /\ job_description = <<>>
    /\ NoCall

NextSanitize ==
    \E type \in {"str", "bytes", "NoneType"}, max_length \in MaxLengths :
        CallSanitizeTextInput(type, max_length)

SpecSanitize == InitSanitize /\ [][NextSanitize]_vars

\* a complete tag on one line: a "<" followed by a ">" with no newline
\* between them
HasTagOnOneLine(s) ==
    \E i \in 1..Len(s) : \E j \in (i + 1)..Len(s) :
        /\ s[i] = "<"
        /\ s[j] = ">"
        /\ \A k \in i..j : s[k] # "\n"

\* C21: for every string input and every length cap of zero or more,
\* sanitize_text_input returns a text no longer than the cap that holds no
\* null byte, no carriage return and no complete <...> tag on one line; an
\* input that is not a string raises ValueError.
C21_SanitizedText ==
    method = "sanitize_text_input" =>
        IF calls[1].type = "str"
        THEN /\ outcome = "returned"
             /\ Len(ret) <= calls[1].max_length
             /\ NUL \notin Range(ret)
             /\ "\r" \notin Range(ret)
             /\ ~HasTagOnOneLine(ret)
        ELSE /\ outcome = "ValueError"
             /\ ret.message = "Input must be a string"

\* a text with a tag, a null byte or carriage return, cut by the cap, of
\* which something is left
C21_Witness ==
    /\ method = "sanitize_text_input"
    /\ calls[1].type = "str"
    /\ HasTagOnOneLine(resume_text)
    /\ Len(resume_text) > calls[1].max_length
    /\ {NUL, "\r"} \cap Range(SubSeq(resume_text, 1, calls[1].max_length)) # {}
    /\ ret # <<>>


-----------------------------------------------------------------------------
(* SecurityValidator.sanitize_filename (src/scripts/utils/security.py)     *)

\* str.rfind(c) + 1: the position of the last c of s, 0 when s has none
RFind(s, c) == SetMax({0} \cup {i \in 1..Len(s) : s[i] = c})

\* os.path.basename
Basename(p) == SubSeq(p, RFind(p, "/") + 1, Len(p))

\* os.path.splitext: the extension starts at the last dot of the last
\* component, unless only dots precede it there
SplitExt(p) ==
    LET sep == RFind(p, "/")
        dot == RFind(p, ".")
    IN  IF dot > sep /\ \E k \in (sep + 1)..(dot - 1) : p[k] # "."
        THEN [name |-> SubSeq(p, 1, dot - 1), ext |-> SubSeq(p, dot, Len(p))]
        ELSE [name |-> p, ext |-> <<>>]

dangerous_chars == <<"<", ">", ":", "\"", "|", "?", "*", "\\", "/">>

ReplaceDangerous(filename) ==
    [i \in 1..Len(filename) |->
        IF filename[i] \in Range(dangerous_chars) THEN "_" ELSE filename[i]]

NameLimit == 255

\* the limit on the length of the name
LimitLength(filename) ==
    IF Len(filename) > NameLimit
    THEN Then(SplitExt(filename), LAMBDA parts :
             Truncate(parts.name, NameLimit - Len(parts.ext)) \o parts.ext)
    ELSE filename

SanitizeFilename(filename) ==
    Returned(LimitLength(ReplaceDangerous(Basename(filename))))

\* Calls of sanitize_filename: a directory, a stem, a run of the letter a,
\* and an extension; the runs bring the length to both sides of NameLimit
MaxFill == 8
MaxLongExtension == 2

Fill(c, n) == [i \in 1..n |-> c]

Directories == {<<>>, <<".",".","/">>, <<"/","e","t","c","/">>, <<".",".","\\">>, <<"u","p","/",".",".","/">>}

Stems == {<<"c","v">>, <<".",".">>, <<"c","<","v",">",":","1","|","2","?","3","*","4","\"","5">>, <<".","r","c">>}

FillCounts == {0} \cup {NameLimit - MaxFill + k : k \in 0..MaxFill}

Extensions ==
    {<<>>, <<".","p","d","f">>, <<".","p","?","f">>, <<".","t","a","r",".","g","z">>}
        \cup {<<".">> \o Fill("b", NameLimit - 2 + k) : k \in 0..MaxLongExtension}

Filenames ==
    {d \o s \o Fill("a", n) \o e :
        d \in Directories, s \in Stems, n \in FillCounts, e \in Extensions}

CallSanitizeFilename(filename) ==
    /\ method = "none"
    /\ \E r \in {SanitizeFilename(filename)} : Finish("sanitize_filename", r)
    /\ calls' = <<[filename |-> filename]>>

InitFilename ==
    /\ resume_text = <<>>
    /\ job_description = <<>>
    /\ NoCall

NextFilename == \E filename \in Filenames : CallSanitizeFilename(filename)

SpecFilename == InitFilename /\ [][NextFilename]_vars

EndsWith(s, tail) ==
    Len(tail) <= Len(s) /\ SubSeq(s, Len(s) - Len(tail) + 1, Len(s)) = tail

\* C22: for every filename, the result of sanitize_filename has at most 255
\* characters and still ends with the extension of the original filename.
C22_ShortAndKeepsExtension ==
    method = "sanitize_filename" =>
        /\ outcome = "returned"
        /\ Len(ret) <= 255
        /\ EndsWith(ret, SplitExt(calls[1].filename).ext)

\* C23: for every filename, the result of sanitize_filename holds none of
\* the characters < > : " | ? * \ / and no directory component, so that
\* joined to a directory it names nothing outside of that directory.
C23_NoDangerousCharacterNoDirectory ==
    method = "sanitize_filename" =>
        /\ outcome = "returned"
        /\ Range(ret) \cap {"<", ">", ":", "\"", "|", "?", "*", "\\", "/"} = {}
        /\ ret # <<".", ".">>


-----------------------------------------------------------------------------
(* SecurityValidator.validate_file_path (src/scripts/utils/security.py)    *)
(*                                                                         *)
(* A call is made on a path and on what the file system and libmagic       *)
(* answer for it: whether it exists, whether it is a regular file, its     *)
(* size, and the MIME type magic.from_file reports ("raises" when it       *)
(* raises instead).                                                        *)

ALLOWED_MIME_TYPES == {"application/pdf", "text/plain", "application/json"}

MAX_FILE_SIZE == 10 * 1024 * 1024

BLOCKED_EXTENSIONS ==
    {<<".","e","x","e">>, <<".","b","a","t">>, <<".","c","m","d">>, <<".","c","o","m">>, <<".","p","i","f">>, <<".","s","c","r">>, <<".","v","b","s">>,
     <<".","j","s">>, <<".","j","a","r">>, <<".","d","l","l">>, <<".","s","y","s">>, <<".","b","i","n">>}

\* Path.suffix: from the last dot of the last component, unless that dot is
\* its first or its last character
PathSuffix(path) ==
    LET name == Basename(path)
        dot  == RFind(name, ".")
    IN  IF 1 < dot /\ dot < Len(name) THEN SubSeq(name, dot, Len(name)) ELSE <<>>

\* the suffix compared as it is spelled
IsBlockedAsSpelled(suffix) == suffix \in BLOCKED_EXTENSIONS

\* line 66
IsBlocked(suffix) == Lower(suffix) \in BLOCKED_EXTENSIONS

\* the working directory of the process
WorkingDirectory == <<"/","a","p","p">>

\* Path(file_path).resolve() for a path without links and dots
Resolve(file_path) ==
    IF file_path # <<>> /\ file_path[1] = "/" THEN file_path
    ELSE WorkingDirectory \o <<"/">> \o file_path

FileValidationError(message) == Raised("FileValidationError", message)

\* the classes that except Exception catches
ExceptionClasses ==
    {"FileValidationError", "MagicException", "ValueError", "OSError", "Exception"}

\* lines 71-73, the body of the try
CheckMimeType(mime) ==
    IF mime = "raises" THEN Raised("MagicException", "failed")
    ELSE IF mime \notin ALLOWED_MIME_TYPES
         THEN FileValidationError("MIME type not allowed")
         ELSE Returned(mime)

\* lines 70-75: what leaves the try statement
TryCheckMimeType(mime) ==
    Then(CheckMimeType(mime), LAMBDA r :
        IF r.raised \in ExceptionClasses THEN Returned("warning") ELSE r)

ValidateFilePath(file) ==
    IF ~file.exists THEN FileValidationError("File does not exist")
    ELSE IF file.kind # "file" THEN FileValidationError("Path is not a file")
    ELSE IF file.size > MAX_FILE_SIZE THEN FileValidationError("File size exceeds maximum")
    ELSE IF IsBlocked(PathSuffix(Resolve(file.path)))
         THEN FileValidationError("File type not allowed")
    ELSE Then(TryCheckMimeType(file.mime), LAMBDA r :
             IF r.raised # "none" THEN r ELSE Returned(Resolve(file.path)))

\* Calls of validate_file_path
MaxSizeDelta == 2

FilePaths ==
    {<<"c","v",".","p","d","f">>, <<"/","s","r","v","/","i","n","/","c","v",".","p","d","f">>, <<"r","u","n",".","e","x","e">>, <<"R","U","N",".","E","X","E">>, <<"/","s","r","v","/","i","n","/","s","e","t","u","p",".","B","a","t">>,
     <<"n","o","t","e","s",".","t","x","t">>, <<"a",".","t","a","r",".","b","i","n">>, <<"d","a","t","a">>, <<"x",".","e","x","e",".","t","x","t">>, <<".","j","s">>}

FileSizes == {0} \cup {MAX_FILE_SIZE - MaxSizeDelta + k : k \in 0..(2 * MaxSizeDelta)}

MimeTypes ==
    ALLOWED_MIME_TYPES \cup {"application/x-dosexec", "image/png", "raises"}

Files ==
    {[path |-> p, exists |-> FALSE, kind |-> "none", size |-> 0, mime |-> "raises"] :
        p \in FilePaths}
    \cup {[path |-> p, exists |-> TRUE, kind |-> "directory", size |-> z, mime |-> "raises"] :
        p \in FilePaths, z \in FileSizes}
    \cup {[path |-> p, exists |-> TRUE, kind |-> "file", size |-> z, mime |-> m] :
        p \in FilePaths, z \in FileSizes, m \in MimeTypes}

CallValidateFilePath(file) ==
    /\ method = "none"
    /\ \E r \in {ValidateFilePath(file)} : Finish("validate_file_path", r)
    /\ calls' = <<file>>

NextValidate == \E file \in Files : CallValidateFilePath(file)

SpecValidate == InitFilename /\ [][NextValidate]_vars

\* C24: validate_file_path checks existence, then is-a-file, then the size,
\* then the extension: a path that does not exist raises "File does not
\* exist", a path that is no file raises, a file above MAX_FILE_SIZE raises,
\* a file with a blocked extension in any letter case raises "File type not
\* allowed", and a file that passes every check is returned as its resolved
\* path.
C24_ChecksInOrder ==
    method = "validate_file_path" =>
        LET file == calls[1]
        IN  IF ~file.exists
            THEN outcome = "FileValidationError" /\ ret.message = "File does not exist"
            ELSE IF file.kind # "file"
            THEN outcome = "FileValidationError" /\ ret.message = "Path is not a file"
            ELSE IF file.size > 10485760
            THEN outcome = "FileValidationError" /\ ret.message = "File size exceeds maximum"
            ELSE IF Lower(PathSuffix(file.path)) \in BLOCKED_EXTENSIONS
            THEN outcome = "FileValidationError" /\ ret.message = "File type not allowed"
            ELSE file.mime \in ALLOWED_MIME_TYPES =>
                     outcome = "returned" /\ ret = Resolve(file.path)

\* a file of the largest allowed size whose blocked extension is spelled in
\* capitals is refused for its type
C24_Witness ==
    /\ method = "validate_file_path"
    /\ calls[1].path = <<"R","U","N",".","E","X","E">>
    /\ calls[1].kind = "file"
    /\ calls[1].size = 10485760
    /\ outcome = "FileValidationError"
    /\ ret.message = "File type not allowed"

\* C25: validate_file_path raises FileValidationError, and returns no path,
\* for an existing file whose detected MIME type is not in
\* ALLOWED_MIME_TYPES.
C25_DisallowedMimeTypeRaises ==
    (/\ method = "validate_file_path"
     /\ calls[1].exists
     /\ calls[1].kind = "file"
     /\ calls[1].mime \notin ALLOWED_MIME_TYPES \cup {"raises"})
        => outcome = "FileValidationError"


-----------------------------------------------------------------------------
(* ResumeProcessor.process (src/scripts/ResumeProcessor.py)                *)
(*                                                                         *)
(* read_single_pdf and ParseResume are collaborators of the processor; a   *)
(* call of process is made on what they answer (a value or an exception),  *)
(* on the file found at the input path, and on the fault, if any, that the *)
(* file system reports while the result is written.                        *)

READ_RESUME_FROM == <<"D","a","t","a","/","R","e","s","u","m","e","s","/">>
SAVE_DIRECTORY == <<"D","a","t","a","/","P","r","o","c","e","s","s","e","d","/","R","e","s","u","m","e","s">>

\* a step of process: the method called and the exception it left with
Step(name, r, written) == [step |-> name, raised |-> r.raised, written |-> written]

\* the dict {}
EmptyDict == [k \in {} |-> k]

\* _read_resumes; pdf is the outcome of read_single_pdf, parsed the outcome
\* of ParseResume(...).get_JSON()
ReadResumes(pdf, parsed) ==
    IF pdf.raised # "none" THEN pdf
    ELSE IF pdf.value = <<>> \/ Strip(pdf.value) = <<>>
         THEN Raised("ValueError", "No text extracted from PDF")
    ELSE Then(SanitizeTextInput("str", pdf.value, DefaultMaxLength), LAMBDA sanitized :
             IF sanitized.raised # "none" THEN sanitized
             ELSE IF parsed.raised # "none" THEN parsed
             ELSE IF DOMAIN parsed.value = {}
                  THEN Raised("ValueError", "Failed to parse resume data")
                  ELSE parsed)

\* the path of the output file
SavePath(input_file, resume_dictionary) ==
    SAVE_DIRECTORY \o <<"/">> \o <<"R","e","s","u","m","e","-">> \o SanitizeFilename(input_file).value
        \o resume_dictionary.unique_id \o <<".","j","s","o","n">>

\* the write step without the test of line 126
WriteWhateverParsed(input_file, resume_dictionary, fault) ==
    [raised |-> "none", written |-> {SAVE_DIRECTORY \o <<"/">> \o <<"R","e","s","u","m","e","-">>}]

\* _write_json_file: the exception it leaves with and the files it has
\* created
WriteJsonFile(input_file, resume_dictionary, fault) ==
    IF "unique_id" \notin DOMAIN resume_dictionary
    THEN [raised |-> "ValueError", written |-> {}]
    ELSE IF fault = "mkdir" THEN [raised |-> "OSError", written |-> {}]
    ELSE IF fault = "validate_directory_path"
         THEN [raised |-> "FileValidationError", written |-> {}]
    ELSE IF fault = "open" THEN [raised |-> "OSError", written |-> {}]
    ELSE IF fault = "write"
         THEN [raised |-> "OSError", written |-> {SavePath(input_file, resume_dictionary)}]
         ELSE [raised |-> "none", written |-> {SavePath(input_file, resume_dictionary)}]

\* process: the value returned and the steps made
Process(input_file, file, pdf, parsed, fault) ==
    Then(ValidateFilePath([file EXCEPT !.path = READ_RESUME_FROM \o input_file]),
         LAMBDA valid :
    IF valid.raised # "none"
    THEN [result |-> IF valid.raised \in ExceptionClasses THEN Returned(FALSE) ELSE valid,
          steps |-> <<Step("validate_file_path", valid, {})>>]
    ELSE
    Then(ReadResumes(pdf, parsed), LAMBDA resume_dict :
    IF resume_dict.raised # "none"
    THEN [result |-> IF resume_dict.raised \in ExceptionClasses
                     THEN Returned(FALSE) ELSE resume_dict,
          steps |-> <<Step("validate_file_path", valid, {}),
                      Step("_read_resumes", resume_dict, {})>>]
    ELSE IF DOMAIN resume_dict.value = {}
    THEN [result |-> Returned(FALSE),
          steps |-> <<Step("validate_file_path", valid, {}),
                      Step("_read_resumes", resume_dict, {})>>]
    ELSE
    Then(WriteJsonFile(input_file, resume_dict.value, fault), LAMBDA write :
         [result |-> IF write.raised = "none" THEN Returned(TRUE)
                     ELSE IF write.raised \in ExceptionClasses THEN Returned(FALSE)
                     ELSE write,
          steps |-> <<Step("validate_file_path", valid, {}),
                      Step("_read_resumes", resume_dict, {}),
                      Step("_write_json_file", write, write.written)>>])))

\* Calls of process
InputFiles == {<<"c","v",".","p","d","f">>, <<"r","u","n",".","e","x","e">>, <<".",".","/","c","v",".","p","d","f">>}

InputFileStates ==
    {f \in Files : /\ f.path = <<"c","v",".","p","d","f">>
                   /\ f.size \in {0, MAX_FILE_SIZE + 1}
                   /\ f.mime \in {"application/pdf", "image/png", "raises"}}

PdfOutcomes ==
    {Raised("Exception", "read failed"), Returned(<<>>), Returned(<<" ","\n"," ">>),
     Returned(<<"J","a","n","e"," ","<","b",">","D","o","e","<","/","b",">">>)}

ParseOutcomes ==
    {Raised("Exception", "parse failed"), Returned(EmptyDict),
     Returned([name |-> <<"J","a","n","e">>]),
     Returned([name |-> <<"J","a","n","e">>, unique_id |-> <<"7","f">>])}

WriteFaults == {"none", "mkdir", "validate_directory_path", "open", "write"}

CallProcess(input_file, file, pdf, parsed, fault) ==
    /\ method = "none"
    /\ \E p \in {Process(input_file, file, pdf, parsed, fault)} :
          /\ Finish("process", p.result)
          /\ calls' = <<[input_file |-> input_file, file |-> file, pdf |-> pdf,
                         parsed |-> parsed, fault |-> fault]>> \o p.steps

NextProcess ==
    \E input_file \in InputFiles, file \in InputFileStates, pdf \in PdfOutcomes,
       parsed \in ParseOutcomes, fault \in WriteFaults :
        CallProcess(input_file, file, pdf, parsed, fault)

SpecProcess == InitFilename /\ [][NextProcess]_vars

\* C26: process never raises.  It runs the file validation, then the read
\* and parse step, then the write step, in this order and each only after
\* the one before it succeeded; it returns True when all three succeeded
\* and False otherwise.  A parsed record without unique_id makes the write
\* step fail: no output file is written and process returns False.
C26_StepsInOrderAndNeverRaises ==
    method = "process" =>
        LET steps == Tail(calls)
            order == <<"validate_file_path", "_read_resumes", "_write_json_file">>
            last  == Len(steps)
        IN  /\ outcome = "returned"
            /\ ret \in BOOLEAN
            /\ last \in 1..3
            /\ \A k \in 1..last : steps[k].step = order[k]
            /\ \A k \in 1..(last - 1) : steps[k].raised = "none"
            /\ last < 3 => steps[last].raised # "none"
            /\ ret <=> (last = 3 /\ steps[3].raised = "none")
            /\ (/\ last >= 2
                /\ steps[2].raised = "none"
                /\ "unique_id" \notin DOMAIN calls[1].parsed.value)
                   => /\ last = 3
                      /\ steps[3].raised # "none"
                      /\ steps[3].written = {}
                      /\ ret = FALSE

\* a valid file was read and parsed into a record without unique_id, and
\* the write step failed
C26_Witness ==
    /\ method = "process"
    /\ Len(calls) = 4
    /\ calls[3].raised = "none"
    /\ "unique_id" \notin DOMAIN calls[1].parsed.value
    /\ calls[4].raised = "ValueError"
    /\ ret = FALSE


-----------------------------------------------------------------------------
(* Properties of the profile table (specification Spec)                    *)

\* C27: analyze_ats_compatibility returns a report, and does not raise, for
\* every member of ATSSystemType that a caller can pass, and every member
\* has a weight record in the engine's ats_criteria.
C27_EveryTypeHasWeights ==
    method = "analyze_ats_compatibility" =>
        /\ ats_type \in ATSSystemType
        /\ outcome = "returned"
        /\ "overall_score" \in DOMAIN ret
        /\ ATSSystemType \subseteq DOMAIN engine.ats_criteria


-----------------------------------------------------------------------------
(* The length score and its issues (specification SpecLength)              *)

\* C28: whenever the length score is below 1.0, and so whenever it is below
\* the threshold 0.8 at which _generate_recommendations reads issues[0],
\* the issues list of the length analysis is not empty; and whenever the
\* issues list is empty the score is exactly 1.0.
C28_LowLengthScoreHasIssue ==
    method = "_analyze_length" =>
        /\ RatLess(ret.score, Rat(1, 1)) => ret.issues # <<>>
        /\ LengthNeedsWork(ret.score) => Len(ret.issues) >= 1
        /\ ret.issues = <<>> => ret.score = Rat(1, 1)
        /\ LET analysis == [keyword_analysis |-> [score |-> Rat(1, 1), missing_keywords |-> <<>>],
                            format_analysis |-> [score |-> FloatLiteral(1, 1)],
                            length_analysis |-> ret]
           IN  GenerateRecommendations(analysis, "GENERIC").raised # "IndexError"

\* a resume a little too long: its score is below 1.0 but not below the
\* threshold, and it has its issue
C28_Witness ==
    /\ method = "_analyze_length"
    /\ ret.word_count > ret.optimal_range[2]
    /\ RatLess(ret.score, Rat(1, 1))
    /\ ~LengthNeedsWork(ret.score)
    /\ Len(ret.issues) = 1


-----------------------------------------------------------------------------
(* The lower bound of the format score (specification SpecFormat)          *)

\* C30 as the specification states it: the format score is never below
\* 0.3, the penalties adding up to 0.7 at most, and the floor at 0.0 never
\* decides the score.
C30_FormatScoreAtLeastThreeTenths ==
    method = "_analyze_format" =>
        /\ ~FloatLess(ret.score, FloatLiteral(30, 100))
        /\ Len(ret.issues) <= 9
        /\ FloatLess(FloatLiteral(0, 1), ret.score)

\* C30, amended: the format score is never below 0.3 by more than the
\* rounding of the subtractions: it is 0.30 or more to the nearest
\* hundredth and less than 2^-50 below that hundredth (with all nine
\* penalties it is the double 0.2999999999999997, which is below the double
\* 0.3); at most nine penalties apply, and the score is above 0.0, so that
\* the floor at 0.0 never decides it.
C30_FormatScoreNearThreeTenths ==
    method = "_analyze_format" =>
        /\ Hundredths(ret.score) >= 30
        /\ -HundredthsError(ret.score) < 100 * 2^7
        /\ Len(ret.issues) <= 9
        /\ FloatLess(FloatLiteral(0, 1), ret.score)

\* all nine penalties: the score is 0.30 to the nearest hundredth and below
\* the double 0.3
C30_Witness ==
    /\ method = "_analyze_format"
    /\ Len(ret.issues) = 9
    /\ Hundredths(ret.score) = 30
    /\ FloatLess(ret.score, FloatLiteral(30, 100))
    /\ FloatLess(FloatLiteral(0, 1), ret.score)


-----------------------------------------------------------------------------
(* IntegratedResumeProcessor.analyze_compatibility                         *)
(* (src/scripts/integration_bridge.py)                                     *)
(*                                                                         *)
(* enhanced_available is decided when the processor is constructed, by     *)
(* which modules can be imported; get_similarity_score is a collaborator   *)
(* that may be missing (ImportError), raise, or return anything.           *)

\* the values of the members of ATSSystemType
ATSSystemValues ==
    [t \in ATSSystemType |->
        CASE t = "WORKDAY"    -> <<"w","o","r","k","d","a","y">>
          [] t = "TALEO"      -> <<"t","a","l","e","o">>
          [] t = "GREENHOUSE" -> <<"g","r","e","e","n","h","o","u","s","e">>
          [] t = "LEVER"      -> <<"l","e","v","e","r">>
          [] t = "BAMBOO_HR"  -> <<"b","a","m","b","o","o","_","h","r">>
          [] t = "GENERIC"    -> <<"g","e","n","e","r","i","c">>]

\* the member compared by its value as it is, underscore included
ATSEnumByValue(name) ==
    LET hits == {t \in ATSSystemType : Lower(ATSSystemValues[t]) = Lower(name)}
    IN  IF hits = {} THEN "GENERIC" ELSE CHOOSE t \in hits : TRUE

\* lines 105-109: the member whose value, with spaces for underscores, is
\* the name in lower case; GENERIC when there is none
ATSEnumOf(name) ==
    LET hits == {t \in ATSSystemType :
                    Replace(Lower(ATSSystemValues[t]), "_", <<" ">>) = Lower(name)}
    IN  IF hits = {} THEN "GENERIC" ELSE CHOOSE t \in hits : TRUE

\* result['method'] = tag
WithMethod(result, tag) ==
    [k \in DOMAIN result \cup {"method"} |-> IF k = "method" THEN tag ELSE result[k]]

\* lines 125-128
SimilarityScore(similarity) ==
    IF similarity.type = "list" /\ Len(similarity.items) > 0
    THEN IF "score" \in DOMAIN similarity.items[1]
         THEN similarity.items[1].score ELSE Rat(1, 2)
    ELSE Rat(1, 2)

\* lines 130-157
BasicReport(text, score) ==
    [overall_score |-> score,
     keyword_analysis |-> [score |-> score, matched_keywords |-> <<>>,
                           missing_keywords |-> <<>>, keyword_frequency |-> <<>>],
     format_analysis |-> [score |-> Rat(8, 10),
                          format_checks |-> [has_contact_info |-> TRUE,
                                             proper_sections |-> TRUE,
                                             readable_format |-> TRUE],
                          improvements |-> <<>>],
     length_analysis |-> [score |-> Rat(7, 10), word_count |-> WordCount(text),
                          character_count |-> CharCount(text)],
     section_analysis |-> [score |-> Rat(7, 10)],
     recommendations |-> <<"Use enhanced analysis for detailed recommendations">>,
     method |-> "basic_similarity"]

\* lines 161-185
ErrorReport(text, error) ==
    [overall_score |-> Rat(1, 2),
     keyword_analysis |-> [score |-> Rat(1, 2), matched_keywords |-> <<>>,
                           missing_keywords |-> <<>>, keyword_frequency |-> <<>>],
     format_analysis |-> [score |-> Rat(1, 2), format_checks |-> <<>>,
                          improvements |-> <<>>],
     length_analysis |-> [score |-> Rat(1, 2), word_count |-> WordCount(text),
                          character_count |-> CharCount(text)],
     section_analysis |-> [score |-> Rat(1, 2)],
     recommendations |-> <<"Please check your input and try again">>,
     method |-> "error_fallback",
     error |-> error]

\* lines 119-185; similarity is the outcome of importing and calling
\* get_similarity_score
BasicSimilarity(text, similarity) ==
    IF similarity.raised # "none"
    THEN Returned(ErrorReport(text, similarity.value.message))
    ELSE Returned(BasicReport(text, SimilarityScore(similarity.value)))

AnalyzeCompatibility(enhanced_available, text, jd, name, similarity) ==
    IF enhanced_available
    THEN Then(AnalyzeATSCompatibility(text, jd, ATSEnumOf(name)), LAMBDA result :
             IF result.raised = "none"
             THEN Returned(WithMethod(result.value, "enhanced_ats"))
             ELSE BasicSimilarity(text, similarity))
    ELSE BasicSimilarity(text, similarity)

\* Calls of analyze_compatibility
ATSTypeNames ==
    {<<"g","e","n","e","r","i","c">>, <<"W","o","r","k","d","a","y">>, <<"T","A","L","E","O">>, <<"l","e","v","e","r">>, <<"b","a","m","b","o","o"," ","h","r">>, <<"b","a","m","b","o","o","_","h","r">>,
     <<"i","c","i","m","s">>, <<>>}

SimilarityOutcomes ==
    {Raised("ImportError", "No module named 'scripts.similarity'"),
     Raised("Exception", "similarity failed"),
     Returned([type |-> "list", items |-> <<[score |-> Rat(73, 100)]>>]),
     Returned([type |-> "list", items |-> <<[text |-> "match"]>>]),
     Returned([type |-> "list", items |-> <<>>]),
     Returned([type |-> "float", items |-> <<>>])}

CallAnalyzeCompatibility(enhanced_available, ats_type_name, similarity) ==
    /\ method = "none"
    /\ \E r \in {AnalyzeCompatibility(enhanced_available, resume_text, job_description,
                                      ats_type_name, similarity)} :
          Finish("analyze_compatibility", r)
    /\ calls' = <<[enhanced_available |-> enhanced_available,
                   ats_type |-> ats_type_name, similarity |-> similarity]>>

InitBridge ==
    /\ resume_text \in EngineResumes
    /\ job_description \in EngineJobDescriptions
    /\ NoCall

NextBridge ==
    \E enhanced_available \in BOOLEAN, ats_type_name \in ATSTypeNames,
       similarity \in SimilarityOutcomes :
        CallAnalyzeCompatibility(enhanced_available, ats_type_name, similarity)

SpecBridge == InitBridge /\ [][NextBridge]_vars

\* the vendor names analyze_compatibility knows
VendorNames ==
    {<<"w","o","r","k","d","a","y">>, <<"t","a","l","e","o">>, <<"g","r","e","e","n","h","o","u","s","e">>, <<"l","e","v","e","r">>, <<"b","a","m","b","o","o"," ","h","r">>, <<"g","e","n","e","r","i","c">>}

\* C29: for string inputs analyze_compatibility never raises and returns a
\* report with overall_score and a method tag, one of enhanced_ats,
\* basic_similarity and error_fallback.  The basic similarity runs only when
\* the enhanced engine is unavailable or has raised; the error_fallback
\* report, all of whose scores are 0.5, is returned only when the basic
\* similarity has raised too; and an ats_type that names no vendor is
\* analysed as GENERIC.
C29_FallbackChain ==
    method = "analyze_compatibility" =>
        LET call     == calls[1]
            vendor   == IF Lower(call.ats_type) \in VendorNames
                        THEN CHOOSE t \in ATSSystemType :
                                Lower(call.ats_type) \in
                                    {ATSSystemValues[t], Replace(ATSSystemValues[t], "_", <<" ">>)}
                        ELSE "GENERIC"
            enhanced == AnalyzeATSCompatibility(resume_text, job_description, vendor)
            engine_ok == call.enhanced_available /\ enhanced.raised = "none"
            basic_ok  == call.similarity.raised = "none"
        IN  /\ outcome = "returned"
            /\ "overall_score" \in DOMAIN ret
            /\ ret.method \in {"enhanced_ats", "basic_similarity", "error_fallback"}
            /\ ret.method = "enhanced_ats" <=> engine_ok
            /\ ret.method = "basic_similarity" <=> (~engine_ok /\ basic_ok)
            /\ ret.method = "error_fallback" <=> (~engine_ok /\ ~basic_ok)
            /\ ret.method = "enhanced_ats" => ret = WithMethod(enhanced.value, "enhanced_ats")
            /\ ret.method = "error_fallback" =>
                  /\ ret.overall_score = Rat(1, 2)
                  /\ \A k \in {"keyword_analysis", "format_analysis",
                               "length_analysis", "section_analysis"} :
                        ret[k].score = Rat(1, 2)

\* an ats_type that names no vendor, analysed by the enhanced engine as
\* GENERIC
C29_Witness ==
    /\ method = "analyze_compatibility"
    /\ calls[1].ats_type = <<"b","a","m","b","o","o","_","h","r">>
    /\ ret.method = "enhanced_ats"
    /\ ret = WithMethod(AnalyzeATSCompatibility(resume_text, job_description, "GENERIC").value,
                        "enhanced_ats")

=============================================================================
